---- MODULE Spec2Model ----
(***************************************************************************)
(* Lease-based work distribution of the transcription service:             *)
(* AudioService / TranscriptionService (app/services/db_service.py) and    *)
(* the request handlers that call them, run against one PostgreSQL store   *)
(* by concurrent request sessions.                                         *)
(*                                                                         *)
(* A request session owns one database session.  A transaction's writes    *)
(* become visible at its commit; between a statement that locks a row      *)
(* (FOR UPDATE, UPDATE) and the commit, the row lock is held and is what   *)
(* other sessions observe (SKIP LOCKED skips the row, UPDATE waits).       *)
(*                                                                         *)
(* Time.  Every timestamp is held as its distance in minutes from the      *)
(* present: NOW() is 0, NOW() + INTERVAL '15 minutes' is 15, a negative    *)
(* value lies in the past.  When the clock advances every timestamp moves  *)
(* back by the same amount (Tick).  The code compares a lease only with    *)
(* NOW(), so all expired leases are alike and are held as one value; other *)
(* timestamps are told apart as far back as Horizon.                       *)
(*                                                                         *)
(* Submissions.  create_transcription stores a row only for audio flagged  *)
(* unsuitable: on the other path it reads transcription_data.validated_at, *)
(* a field the request model TranscriptionCreate does not declare          *)
(* (app/schemas/__init__.py), so the attribute access raises before        *)
(* anything is added to the session.  Every submission the service stores  *)
(* is therefore an unsuitable one, its parent is scrubbed to the sentinel  *)
(* filename, and UNIQUE (audio_filename) lets one item at most be in that  *)
(* condition.  The validation queue, validate and the progress counts are  *)
(* run on stores that hold submissions for suitable audio, drawn in the    *)
(* initial predicates of their specifications.                             *)
(*                                                                         *)
(* Rows read after a commit.  The session factory leaves expire_on_commit  *)
(* at its default, so a commit or rollback expires every loaded row, and   *)
(* an attribute read after it needs a reload that an asynchronous session  *)
(* cannot run from plain attribute access: the read raises.                *)
(***************************************************************************)
EXTENDS Integers, Sequences, FiniteSets, TLC

\* ---------------------------------------------------------------- settings
MAX_TRANSCRIPTIONS_PER_AUDIO == 2
AUDIO_LEASE_TIMEOUT_MINUTES == 15

\* ------------------------------------------------------------------ bounds
NumAudio == 2            \* rows of "Audio"
MaxTranscriptions == 3   \* rows of "Transcriptions" the model lets exist
MaxClaimCalls == 3       \* claim calls of one run of SpecClaims
MaxCalls == 3            \* service calls of one run of SpecRelease
MaxSubmitCalls == 2      \* submissions of one run of SpecSubmit
MaxCsvRows == 2          \* lines of an imported CSV file
NumPending == 6          \* submissions of a pool of SpecValidation
MaxNvCalls == 3          \* next-for-validation calls of one run of SpecValidation
NumContended == 3        \* rows of "Audio" of a pool of SpecContention
NumReview == 3           \* submissions of a pool of SpecReview
MaxReviewCalls == 2      \* calls of one run of SpecReview
NumFair == 2             \* submissions of a pool of SpecFair
MaxInbox == 2            \* pairs held by reviewers at one time in SpecFair
MaxProgressCalls == 2    \* calls of one run of SpecProgress, of SpecCounts
NumCounted == 3          \* submissions of a pool of SpecCounts
TickMinutes == 10        \* the clock advances in steps of this many minutes
Horizon == 20            \* how far back (minutes) the model tells past times apart

\* SQL NULL of a timestamp or number column (string columns hold "NULL")
NULL == -999
\* the holder of a row lock that nobody holds
None == "none"

Sessions == {"s1", "s2"}
\* the callers of a run of concurrent claims (SpecClaims)
Callers == {"c1", "c2", "c3"}
\* the audio_ids the rows of "Audio" may carry
AllAudioIds == 1..NumAudio
\* the audio_ids a request may carry: those, and one that no row carries
RequestIds == 1..(NumAudio + 1)

VARIABLES
    Audio,           \* table "Audio": audio_id -> committed row
    Transcriptions,  \* table "Transcriptions": sequence of committed rows, trans_id = index
    rowlock,         \* audio_id -> session holding the row lock, or None
    tlock,           \* trans_id -> session holding the row lock, or None
    blobs,           \* object names present in the GCS bucket
    pc,              \* session -> position of its request handler
    local,           \* session -> local variables of its request handler
    grant,           \* history: audio_id -> the latest lease grant on the row
    returned,        \* history: what each finished claim call returned, in order
    eligible         \* history: the audio_ids claimable when the run began

vars == <<Audio, Transcriptions, rowlock, tlock, blobs, pc, local,
          grant, returned, eligible>>

\* the audio_ids of the rows of "Audio"
AudioIds == DOMAIN Audio
store == <<Audio, Transcriptions, rowlock, tlock, blobs>>
run == <<returned, eligible>>
hist == <<grant, returned, eligible>>

\* ------------------------------------------------------------------ tables
\* A row of "Audio" as the bulk import stores it: the filename and the reference
\* transcription of its CSV line, transcription_count 0, every other column NULL.
Filename(a) == "clip" \o ToString(a)
NOT_SUITABLE == "not_suitable"
NewAudio(a) ==
    [audio_filename |-> Filename(a), google_transcription |-> "reference",
     transcription_count |-> 0, leased_until |-> NULL,
     start_time |-> NULL, end_time |-> NULL, padded_duration |-> NULL,
     created_at |-> NULL]

\* A row of "Transcriptions" as create_transcription builds it for unsuitable
\* audio: the text of the request model, every quality field None.
UnsuitableTranscription(a, text) ==
    [audio_id |-> a, transcription |-> text, speaker_gender |-> "NULL",
     has_noise |-> "NULL", is_code_mixed |-> "NULL",
     is_speaker_overlappings_exist |-> "NULL", is_audio_suitable |-> "FALSE",
     admin |-> "NULL", validated_at |-> NULL, created_at |-> NULL]

TransIds == 1..Len(Transcriptions)
TranscriptionsOf(a) == {i \in TransIds : Transcriptions[i].audio_id = a}

Idle == [op |-> "none"]
NoGrant == [by |-> "none", at |-> NULL, submitted |-> FALSE, released |-> FALSE]

\* ------------------------------------------------------------------- lease
\* NOW()
now == 0

\* NOW() is the time at which the transaction began.  A timestamp committed as
\* NOW() or earlier therefore lies behind the NOW() of every transaction that
\* begins after the commit: a lease of that value is over for all of them, and
\* is held as the one value of a lease that is over.
AfterCommit(x) == IF x # NULL /\ x <= now THEN 0 - TickMinutes ELSE x

\* Fault: the interval is applied twice.
LeaseUntil_twice(t) == t + AUDIO_LEASE_TIMEOUT_MINUTES + AUDIO_LEASE_TIMEOUT_MINUTES

\* NOW() + INTERVAL '{AUDIO_LEASE_TIMEOUT_MINUTES} minutes'
LeaseUntil(t) == t + AUDIO_LEASE_TIMEOUT_MINUTES

\* Fault: only a lease that was never set counts as over.
LeaseExpired_null_only(row, t) == row.leased_until = NULL

\* leased_until IS NULL OR leased_until < NOW()
LeaseExpired(row, t) == row.leased_until = NULL \/ row.leased_until < t

\* Fault: the ceiling is compared with <= instead of <.
Claimable_at_ceiling(row, t) ==
    /\ row.transcription_count <= MAX_TRANSCRIPTIONS_PER_AUDIO
    /\ row.leased_until = NULL \/ row.leased_until < t

\* The WHERE clause of the claim: transcription_count < max AND the lease is over.
Claimable(row, t) ==
    /\ row.transcription_count < MAX_TRANSCRIPTIONS_PER_AUDIO
    /\ LeaseExpired(row, t)

\* Fault: the rows are ordered by audio_id alone.
ClaimBefore_by_id(a, b) == a <= b

\* ORDER BY transcription_count ASC, audio_id
ClaimBefore(a, b) ==
    \/ Audio[a].transcription_count < Audio[b].transcription_count
    \/ /\ Audio[a].transcription_count = Audio[b].transcription_count
       /\ a <= b

First(S) == IF S = {} THEN {} ELSE {CHOOSE a \in S : \A b \in S : ClaimBefore(a, b)}

\* Fault: the subquery without FOR UPDATE SKIP LOCKED (rows locked by a
\* concurrent claim are selected all the same).
claim_select_nolock(t) ==
    First({a \in AudioIds : Claimable(Audio[a], t)})

\* Fault: LIMIT 1 applied before the locked rows are skipped (the best row
\* is tried and, when locked, nothing is returned).
claim_select_limit_first(t) ==
    {a \in First({a \in AudioIds : Claimable(Audio[a], t)}) : rowlock[a] = None}

\* The subquery of the claim: SELECT audio_id ... FOR UPDATE SKIP LOCKED LIMIT 1,
\* the set of at most one audio_id it yields at transaction time t.
claim_select(t) ==
    First({a \in AudioIds : Claimable(Audio[a], t) /\ rowlock[a] = None})

\* The row RETURNING hands back, wrapped as ClaimedAudio.
ClaimedAudio(a, row) ==
    [audio_id |-> a, audio_filename |-> row.audio_filename,
     google_transcription |-> row.google_transcription,
     transcription_count |-> row.transcription_count,
     leased_until |-> row.leased_until]

\* ------------------------------------------------------------------- claim
\* AudioService.claim_audio_for_transcription, db.execute(query) and
\* result.fetchone(): the subquery picks and locks one row, or yields no row.
claim_execute(s) ==
    /\ pc[s] = "idle"
    /\ LET sel == claim_select(now) IN
       IF sel = {}
       THEN /\ pc' = [pc EXCEPT ![s] = "claim_empty"]
            /\ local' = [local EXCEPT ![s] = [op |-> "claim"]]
            /\ UNCHANGED rowlock
       ELSE \E a \in sel :
            /\ rowlock' = [rowlock EXCEPT ![a] = s]
            /\ pc' = [pc EXCEPT ![s] = "claim_locked"]
            /\ local' = [local EXCEPT ![s] = [op |-> "claim", audio_id |-> a]]
    /\ UNCHANGED <<Audio, Transcriptions, tlock, blobs>>

\* Fault: the claim counts the item as transcribed when it hands it out.
claim_update_counts(row, t) ==
    [row EXCEPT !.leased_until = LeaseUntil(t), !.transcription_count = @ + 1]

\* The row the claim's UPDATE writes.
claim_update(row, t) == [row EXCEPT !.leased_until = LeaseUntil(t)]

\* audio_row is set: db.commit() and return ClaimedAudio.  The lease becomes
\* visible and the row lock is released.
claim_commit(s) ==
    /\ pc[s] = "claim_locked"
    /\ LET a == local[s].audio_id IN
       /\ Audio' = [Audio EXCEPT ![a] = claim_update(@, now)]
       /\ rowlock' = [rowlock EXCEPT ![a] = None]
    /\ pc' = [pc EXCEPT ![s] = "idle"]
    /\ local' = [local EXCEPT ![s] = Idle]
    /\ UNCHANGED <<Transcriptions, tlock, blobs>>

\* audio_row is None: db.rollback() and return None.
claim_none(s) ==
    /\ pc[s] = "claim_empty"
    /\ pc' = [pc EXCEPT ![s] = "idle"]
    /\ local' = [local EXCEPT ![s] = Idle]
    /\ UNCHANGED <<store>>

\* Fault: the failed claim leaves its UPDATE in the store.
claim_rollback_keeps_update(s) ==
    /\ pc[s] = "claim_locked"
    /\ Audio' = [Audio EXCEPT ![local[s].audio_id] = claim_update(@, now)]
    /\ rowlock' = [rowlock EXCEPT ![local[s].audio_id] = None]
    /\ pc' = [pc EXCEPT ![s] = "idle"]
    /\ local' = [local EXCEPT ![s] = Idle]
    /\ UNCHANGED <<Transcriptions, tlock, blobs>>

\* The except branch of the claim: the store fails before the commit, the
\* transaction is rolled back and the error is raised.
claim_rollback(s) ==
    /\ pc[s] = "claim_locked"
    /\ rowlock' = [rowlock EXCEPT ![local[s].audio_id] = None]
    /\ pc' = [pc EXCEPT ![s] = "idle"]
    /\ local' = [local EXCEPT ![s] = Idle]
    /\ UNCHANGED <<Audio, Transcriptions, tlock, blobs>>

\* ------------------------------------------------------------------ import
\* The filenames a CSV line may carry, already stripped: blank, a clip's name,
\* or the sentinel.
CsvNames == {"", "clip1", "clip2", NOT_SUITABLE}

\* The CSV files: one to MaxCsvRows lines.
CsvFiles == UNION {[1..n -> CsvNames] : n \in 1..MaxCsvRows}

\* The row bulk_insert_from_csv builds for a line.
ImportedAudio(name) == [NewAudio(1) EXCEPT !.audio_filename = name]

\* The lines of the file that are not skipped: the filename is not blank and
\* was not among the stored ones when the import looked them up.
import_kept(csv, existing) ==
    {i \in DOMAIN csv : csv[i] # "" /\ csv[i] \notin existing}

\* bulk_insert_from_csv up to db.commit(): the file is read, the stored
\* filenames among its own are looked up, and a record is added to the session
\* for every line that is not skipped.
import_read(s, csv) ==
    /\ pc[s] = "idle"
    /\ LET existing == {Audio[a].audio_filename : a \in AudioIds}
                           \cap {csv[i] : i \in DOMAIN csv} IN
       local' = [local EXCEPT ![s] =
                    [op |-> "import", csv |-> csv, kept |-> import_kept(csv, existing)]]
    /\ pc' = [pc EXCEPT ![s] = "import_read"]
    /\ UNCHANGED <<store>>

\* UNIQUE (audio_filename) on the import's INSERTs: two of the records carry
\* one filename, or a record carries a filename that is stored by now.
import_unique_violation(s) ==
    LET csv == local[s].csv  kept == local[s].kept IN
    \/ \E i, j \in kept : i # j /\ csv[i] = csv[j]
    \/ \E i \in kept, a \in AudioIds : Audio[a].audio_filename = csv[i]

\* db.commit() of the import: every record becomes a row, under an audio_id
\* of its own (uuid4).
import_commit(s) ==
    /\ pc[s] = "import_read"
    /\ ~import_unique_violation(s)
    /\ LET csv == local[s].csv  kept == local[s].kept IN
       \E id \in [kept -> AllAudioIds \ AudioIds] :
          /\ \A i, j \in kept : i # j => id[i] # id[j]
          /\ Audio' = [a \in AudioIds \cup {id[i] : i \in kept} |->
                 IF a \in AudioIds THEN Audio[a]
                 ELSE ImportedAudio(csv[CHOOSE i \in kept : id[i] = a])]
    /\ pc' = [pc EXCEPT ![s] = "idle"]
    /\ local' = [local EXCEPT ![s] = Idle]
    /\ UNCHANGED <<Transcriptions, rowlock, tlock, blobs>>

\* db.commit() of the import raises IntegrityError: rollback, raise; no line
\* of the file is stored.
import_integrity_error(s) ==
    /\ pc[s] = "import_read"
    /\ import_unique_violation(s)
    /\ pc' = [pc EXCEPT ![s] = "idle"]
    /\ local' = [local EXCEPT ![s] = Idle]
    /\ UNCHANGED <<store>>

\* ----------------------------------------------------------- request model
\* A text is a sequence of characters: " " is whitespace, "t" is not.
Contents == {<<>>, <<" ">>, <<"t">>, <<" ", "t", " ">>}

\* "Audio not suitable for transcription", taken as one character.
PLACEHOLDER == <<"Audio not suitable for transcription">>

\* str.strip()
RECURSIVE lstrip(_)
lstrip(v) == IF v # <<>> /\ Head(v) = " " THEN lstrip(Tail(v)) ELSE v

RECURSIVE rstrip(_)
rstrip(v) == IF v # <<>> /\ v[Len(v)] = " " THEN rstrip(SubSeq(v, 1, Len(v) - 1)) ELSE v

strip(v) == rstrip(lstrip(v))

\* What a validation hands back: the value, or the error it raised.
Valid(v) == [ok |-> TRUE, value |-> v]
ValueError == [ok |-> FALSE, value |-> <<>>]

\* Fault: the validator rejects the empty text only.
validate_transcription_text_unstripped(v, data) ==
    IF v = <<>> THEN ValueError ELSE Valid(v)

\* TranscriptionCreate.validate_transcription_text(v, info), data being
\* info.data: the fields validated before this one.
validate_transcription_text(v, data) ==
    LET is_audio_suitable ==
            IF "is_audio_suitable" \in DOMAIN data THEN data.is_audio_suitable ELSE "TRUE"
    IN  IF is_audio_suitable = "FALSE"
        THEN Valid(IF v # <<>> THEN v ELSE PLACEHOLDER)
        ELSE IF v = <<>> \/ strip(v) = <<>> THEN ValueError ELSE Valid(strip(v))

\* TranscriptionCreate(audio_id=, transcription=, ..., is_audio_suitable=):
\* fields are validated in the order of their declaration, so transcription
\* (min_length=1, then the validator) is validated with audio_id alone in
\* info.data.  The other fields are taken as well-formed.
TranscriptionCreate(a, text, suitable) ==
    IF Len(text) < 1 THEN [ok |-> FALSE]
    ELSE LET r == validate_transcription_text(text, [audio_id |-> a]) IN
         IF ~r.ok THEN [ok |-> FALSE]
         ELSE [ok |-> TRUE, audio_id |-> a, transcription |-> r.value,
               is_audio_suitable |-> suitable]

\* The submissions a client may send: through POST /transcriptions/ ("api")
\* or the web form POST /submit-transcription ("web").
Requests ==
    [entry : {"api", "web"}, audio_id : RequestIds, text : Contents,
     suitable : {"TRUE", "FALSE", "NULL"}]

\* The request model the handler works with: the API validates the body as
\* sent, the web form handler strips the text first.
request_model(q) ==
    TranscriptionCreate(q.audio_id,
                        IF q.entry = "web" THEN strip(q.text) ELSE q.text,
                        q.suitable)

\* The API handler looks the audio up before it calls the service; the web
\* form handler does not.
passes_lookup(q) == q.entry = "api" => q.audio_id \in AudioIds

\* ------------------------------------------------------------------ submit
\* The fields create_transcription overwrites on the Audio record of unsuitable audio.
scrub(row) ==
    [row EXCEPT !.audio_filename = NOT_SUITABLE,
                !.google_transcription = "Audio not suitable for transcription",
                !.start_time = NULL, !.end_time = NULL,
                !.padded_duration = NULL, !.created_at = NULL]

\* The database trigger on "Transcriptions" inserts: the parent row's
\* transcription_count goes up by one.
transcription_count_trigger(row) ==
    [row EXCEPT !.transcription_count = @ + 1]

\* The request does not make a TranscriptionCreate: the API answers 422, the
\* web form handler 400.  The store was not touched.
submit_rejected(s, q) ==
    /\ pc[s] = "idle"
    /\ ~request_model(q).ok
    /\ UNCHANGED <<store, pc, local>>

\* POST /transcriptions/ for an audio_id no row carries: 404.
submit_not_found(s, q) ==
    /\ pc[s] = "idle"
    /\ request_model(q).ok
    /\ ~passes_lookup(q)
    /\ UNCHANGED <<store, pc, local>>

\* A submission for audio not flagged unsuitable (is_audio_suitable True or
\* None): create_transcription, building the row, reads
\* transcription_data.validated_at, which TranscriptionCreate does not declare,
\* and raises AttributeError.  Nothing was added to the session and nothing is
\* stored; the handler answers 500.
submit_suitable(s, q) ==
    /\ pc[s] = "idle"
    /\ request_model(q).ok
    /\ passes_lookup(q)
    /\ q.suitable # "FALSE"
    /\ UNCHANGED <<store, pc, local>>

\* What became of the bucket's delete; "none" when none was asked for.
DeleteOutcomes == {"deleted", "not_found", "raised", "none"}

\* What delete_blob may do with a blob name: delete the blob and return True,
\* find no such blob and return False, or raise.
delete_blob(name, outcome) ==
    /\ outcome = "deleted" => name \in blobs
    /\ outcome = "not_found" => name \notin blobs
    /\ blobs' = IF outcome = "deleted" THEN blobs \ {name} ELSE blobs

\* A submission with is_audio_suitable False, up to db.commit():
\* create_transcription loads the audio row and, when there is one, asks the
\* bucket to delete the stored payload (a failure is logged and passed over)
\* and scrubs the loaded record; nothing is written to the store yet.
submit_unsuitable(s, q, outcome) ==
    /\ pc[s] = "idle"
    /\ request_model(q).ok
    /\ passes_lookup(q)
    /\ q.suitable = "FALSE"
    /\ pc' = [pc EXCEPT ![s] = "submit_unsuitable"]
    /\ LET a == q.audio_id IN
       IF a \in AudioIds
       THEN /\ outcome # "none"
            /\ delete_blob(Audio[a].audio_filename, outcome)
            /\ local' = [local EXCEPT ![s] =
                   [op |-> "submit", request |-> q, audio_id |-> a, found |-> TRUE,
                    text |-> request_model(q).transcription,
                    original_filename |-> Audio[a].audio_filename,
                    delete |-> outcome]]
       ELSE /\ outcome = "none"
            /\ local' = [local EXCEPT ![s] =
                   [op |-> "submit", request |-> q, audio_id |-> a, found |-> FALSE,
                    text |-> request_model(q).transcription,
                    original_filename |-> "NULL", delete |-> outcome]]
            /\ UNCHANGED blobs
    /\ UNCHANGED <<Audio, Transcriptions, rowlock, tlock>>

\* Fault: the sentinel filename is exempt from UNIQUE.
unique_violation_never(s) == FALSE

\* UNIQUE (audio_filename): the scrub's UPDATE collides with another row that
\* already carries the sentinel filename.
unique_violation(s) ==
    /\ local[s].found
    /\ local[s].original_filename # NOT_SUITABLE
    /\ \E b \in AudioIds \ {local[s].audio_id} : Audio[b].audio_filename = NOT_SUITABLE

\* FOREIGN KEY (audio_id) of "Transcriptions": the INSERT names no row of "Audio".
foreign_key_violation(s) == local[s].audio_id \notin AudioIds

\* The Audio row after the flush of an unsuitable submission: the scrub (when
\* the loaded record changed), then the trigger fired by the INSERT.
submit_unsuitable_update(s, row) ==
    transcription_count_trigger(
        IF local[s].original_filename # NOT_SUITABLE THEN scrub(row) ELSE row)

\* db.add(new_transcription); await db.commit() of an unsuitable submission.
submit_unsuitable_commit(s) ==
    /\ pc[s] = "submit_unsuitable"
    /\ ~foreign_key_violation(s)
    /\ rowlock[local[s].audio_id] = None
    /\ ~unique_violation(s)
    /\ LET a == local[s].audio_id IN
       /\ Transcriptions' =
              Append(Transcriptions, UnsuitableTranscription(a, local[s].text))
       /\ Audio' = [Audio EXCEPT ![a] = submit_unsuitable_update(s, @)]
    /\ pc' = [pc EXCEPT ![s] = "idle"]
    /\ local' = [local EXCEPT ![s] = Idle]
    /\ UNCHANGED <<rowlock, tlock, blobs>>

\* db.commit() raises IntegrityError: nothing of the transaction is stored, the
\* handler answers 500.
submit_integrity_error(s) ==
    /\ pc[s] = "submit_unsuitable"
    /\ \/ foreign_key_violation(s)
       \/ /\ ~foreign_key_violation(s)
          /\ rowlock[local[s].audio_id] = None
          /\ unique_violation(s)
    /\ pc' = [pc EXCEPT ![s] = "idle"]
    /\ local' = [local EXCEPT ![s] = Idle]
    /\ UNCHANGED <<store>>

\* ------------------------------------------------------- validation queue
VALIDATION_WINDOW == 5

\* Fault: the query without the condition on a.leased_until.
nv_candidates_leased(t) ==
    {i \in TransIds :
        /\ Transcriptions[i].is_audio_suitable = "TRUE"
        /\ Transcriptions[i].validated_at = NULL
        /\ tlock[i] = None
        /\ rowlock[Transcriptions[i].audio_id] = None}

\* Fault: the query without SKIP LOCKED (rows locked by a concurrent call are
\* selected all the same).
nv_candidates_nolock(t) ==
    {i \in TransIds :
        /\ Transcriptions[i].is_audio_suitable = "TRUE"
        /\ Transcriptions[i].validated_at = NULL
        /\ LeaseExpired(Audio[Transcriptions[i].audio_id], t)}

\* Fault: the query without "AND t.validated_at IS NULL".
nv_candidates_validated(t) ==
    {i \in TransIds :
        /\ Transcriptions[i].is_audio_suitable = "TRUE"
        /\ LeaseExpired(Audio[Transcriptions[i].audio_id], t)
        /\ tlock[i] = None
        /\ rowlock[Transcriptions[i].audio_id] = None}

\* WHERE t.is_audio_suitable = TRUE AND t.validated_at IS NULL AND the parent's
\* lease is over, rows locked by another transaction skipped (SKIP LOCKED).
nv_candidates(t) ==
    {i \in TransIds :
        /\ Transcriptions[i].is_audio_suitable = "TRUE"
        /\ Transcriptions[i].validated_at = NULL
        /\ LeaseExpired(Audio[Transcriptions[i].audio_id], t)
        /\ tlock[i] = None
        /\ rowlock[Transcriptions[i].audio_id] = None}

\* Fault: ORDER BY t.created_at DESC (the window holds the latest rows).
nv_windows_latest(t) ==
    LET C == nv_candidates(t)
        n == IF Cardinality(C) < VALIDATION_WINDOW THEN Cardinality(C)
             ELSE VALIDATION_WINDOW IN
    {R \in SUBSET C :
        /\ Cardinality(R) = n
        /\ \A i \in R : \A j \in C \ R :
              Transcriptions[i].created_at >= Transcriptions[j].created_at}

\* ORDER BY t.created_at ASC LIMIT 5: the windows the query may return (rows of
\* equal created_at come in no particular order).
nv_windows(t) ==
    LET C == nv_candidates(t)
        n == IF Cardinality(C) < VALIDATION_WINDOW THEN Cardinality(C)
             ELSE VALIDATION_WINDOW IN
    {R \in SUBSET C :
        /\ Cardinality(R) = n
        /\ \A i \in R : \A j \in C \ R :
              Transcriptions[i].created_at <= Transcriptions[j].created_at}

\* AudioService.lease_audio_for_validation: the UPDATE matches the row of the
\* given audio_id whatever its lease; TRUE when such a row exists.
lease_audio_for_validation(a) == a \in AudioIds

\* The row lease_audio_for_validation writes.
lease_update(row, t) == [row EXCEPT !.leased_until = LeaseUntil(t)]

\* get_next_unvalidated_transcription, the SELECT ... FOR UPDATE OF t, a SKIP
\* LOCKED: the window's rows and their parents are locked; the loop will lease
\* the parent of the first row whose lease call succeeds.  No row: return None.
nv_select(s) ==
    /\ pc[s] = "idle"
    /\ \E R \in nv_windows(now) :
        IF R = {}
        THEN UNCHANGED <<pc, local, rowlock, tlock>>
        ELSE \E i \in R :
             /\ lease_audio_for_validation(Transcriptions[i].audio_id)
             /\ \A j \in R : Transcriptions[i].created_at <= Transcriptions[j].created_at
             /\ tlock' = [j \in DOMAIN tlock |-> IF j \in R THEN s ELSE tlock[j]]
             /\ rowlock' = [a \in DOMAIN rowlock |->
                    IF \E j \in R : Transcriptions[j].audio_id = a THEN s ELSE rowlock[a]]
             /\ pc' = [pc EXCEPT ![s] = "nv_selected"]
             /\ local' = [local EXCEPT ![s] =
                    [op |-> "next_for_validation", trans_id |-> i,
                     audio_id |-> Transcriptions[i].audio_id]]
    /\ UNCHANGED <<Audio, Transcriptions, blobs>>

\* Fault: the loop leases the parent of every row of the window.
nv_lease_commit_window(s) ==
    /\ pc[s] = "nv_selected"
    /\ Audio' = [a \in AudioIds |->
                    IF rowlock[a] = s THEN lease_update(Audio[a], now) ELSE Audio[a]]
    /\ tlock' = [j \in DOMAIN tlock |-> IF tlock[j] = s THEN None ELSE tlock[j]]
    /\ rowlock' = [a \in DOMAIN rowlock |-> IF rowlock[a] = s THEN None ELSE rowlock[a]]
    /\ pc' = [pc EXCEPT ![s] = "idle"]
    /\ local' = [local EXCEPT ![s] = Idle]
    /\ UNCHANGED <<Transcriptions, blobs>>

\* lease_audio_for_validation on the first row: UPDATE, commit.  The commit ends
\* the transaction of the SELECT too, so every lock it took is released.
nv_lease_commit(s) ==
    /\ pc[s] = "nv_selected"
    /\ LET a == local[s].audio_id IN
       /\ Audio' = [Audio EXCEPT ![a] = lease_update(Audio[a], now)]
    /\ tlock' = [j \in DOMAIN tlock |-> IF tlock[j] = s THEN None ELSE tlock[j]]
    /\ rowlock' = [a \in DOMAIN rowlock |-> IF rowlock[a] = s THEN None ELSE rowlock[a]]
    /\ pc' = [pc EXCEPT ![s] = "idle"]
    /\ local' = [local EXCEPT ![s] = Idle]
    /\ UNCHANGED <<Transcriptions, blobs>>

\* ---------------------------------------------------------------- validate
\* The bodies a reviewer may send with PUT /validation/{transcription_id}: a
\* corrected text, quality fields, and an attribution the service is to ignore.
Payloads ==
    [transcription : {<<>>, <<" ">>, <<"c">>, <<" ", "d", " ">>},
     speaker_gender : {"female"}, has_noise : {"TRUE", "FALSE"},
     is_code_mixed : {"TRUE"}, is_speaker_overlappings_exist : {"TRUE"},
     is_audio_suitable : {"TRUE", "FALSE", "NULL"}, admin : {"NULL", "chirath"}]

\* TranscriptionValidationUpdate(**body): transcription is declared first, so
\* min_length=1 and the validator see it with nothing in info.data.
TranscriptionValidationUpdate(body) ==
    IF Len(body.transcription) < 1 THEN [ok |-> FALSE]
    ELSE LET r == validate_transcription_text(body.transcription, <<>>) IN
         IF ~r.ok THEN [ok |-> FALSE]
         ELSE [ok |-> TRUE, update_data |-> [body EXCEPT !.transcription = r.value]]

\* Fault: the validation overwrites the fields and leaves validated_at alone.
validated_row_unstamped(row, update_data, t) ==
    [row EXCEPT !.transcription = strip(update_data.transcription),
                !.speaker_gender = update_data.speaker_gender,
                !.has_noise = update_data.has_noise,
                !.is_code_mixed = update_data.is_code_mixed,
                !.is_speaker_overlappings_exist = update_data.is_speaker_overlappings_exist,
                !.is_audio_suitable = IF update_data.is_audio_suitable # "NULL"
                                      THEN update_data.is_audio_suitable ELSE @]

\* Fault: the validation carries the payload's attribution into the row.
validated_row_with_admin(row, update_data, t) ==
    [row EXCEPT !.transcription = strip(update_data.transcription),
                !.speaker_gender = update_data.speaker_gender,
                !.has_noise = update_data.has_noise,
                !.is_code_mixed = update_data.is_code_mixed,
                !.is_speaker_overlappings_exist = update_data.is_speaker_overlappings_exist,
                !.is_audio_suitable = IF update_data.is_audio_suitable # "NULL"
                                      THEN update_data.is_audio_suitable ELSE @,
                !.admin = update_data.admin,
                !.validated_at = t]

\* Fault: a row that carries a validated_at is left as it is.
validated_row_once(row, update_data, t) ==
    IF row.validated_at # NULL THEN row
    ELSE [row EXCEPT !.transcription = strip(update_data.transcription),
                     !.speaker_gender = update_data.speaker_gender,
                     !.has_noise = update_data.has_noise,
                     !.is_code_mixed = update_data.is_code_mixed,
                     !.is_speaker_overlappings_exist =
                         update_data.is_speaker_overlappings_exist,
                     !.is_audio_suitable = IF update_data.is_audio_suitable # "NULL"
                                           THEN update_data.is_audio_suitable ELSE @,
                     !.validated_at = t]

\* The fields validate_transcription overwrites; admin is left as it was, and
\* is_audio_suitable is kept when the payload carries None.
validated_row(row, update_data, t) ==
    [row EXCEPT !.transcription = strip(update_data.transcription),
                !.speaker_gender = update_data.speaker_gender,
                !.has_noise = update_data.has_noise,
                !.is_code_mixed = update_data.is_code_mixed,
                !.is_speaker_overlappings_exist = update_data.is_speaker_overlappings_exist,
                !.is_audio_suitable = IF update_data.is_audio_suitable # "NULL"
                                      THEN update_data.is_audio_suitable ELSE @,
                !.validated_at = t]

\* The body does not make a TranscriptionValidationUpdate: 422, and the
\* service is not called.
validate_rejected(s, body) ==
    /\ pc[s] = "idle"
    /\ ~TranscriptionValidationUpdate(body).ok
    /\ UNCHANGED <<store, pc, local>>

\* validate_transcription for a trans_id no row carries: ValueError, rollback;
\* the handler answers 404.
validate_not_found(s, i, body) ==
    /\ pc[s] = "idle"
    /\ TranscriptionValidationUpdate(body).ok
    /\ i \notin TransIds
    /\ UNCHANGED <<store, pc, local>>

\* validate_transcription up to its first commit: the row is loaded, corrected,
\* stamped and committed.  The UPDATE waits while another transaction holds the
\* row's lock.
validate_commit(s, i, body) ==
    /\ pc[s] = "idle"
    /\ TranscriptionValidationUpdate(body).ok
    /\ i \in TransIds
    /\ tlock[i] = None
    /\ Transcriptions' = [Transcriptions EXCEPT ![i] =
           validated_row(@, TranscriptionValidationUpdate(body).update_data, now)]
    /\ pc' = [pc EXCEPT ![s] = "validate_committed"]
    /\ local' = [local EXCEPT ![s] =
           [op |-> "validate", trans_id |-> i, audio_id |-> Transcriptions[i].audio_id,
            update_data |-> TranscriptionValidationUpdate(body).update_data]]
    /\ UNCHANGED <<Audio, rowlock, tlock, blobs>>

\* Fault: the release resets the count of the item it releases.
release_update_clears_count(row, t) ==
    [row EXCEPT !.leased_until = t, !.transcription_count = 0]

\* Fault: the release writes a lease of the full interval.
release_update_extends(row, t) == [row EXCEPT !.leased_until = LeaseUntil(t)]

\* The row release_audio_lease writes: leased_until = NOW().
release_update(row, t) == [row EXCEPT !.leased_until = t]

\* The row as the transactions after release_audio_lease's commit find it.
release_committed(row, t) ==
    [release_update(row, t) EXCEPT !.leased_until = AfterCommit(@)]

\* AudioService.release_audio_lease, db.execute(query) and fetchone(): the
\* UPDATE waits for the row's lock and takes it, or matches no row.
release_execute(s, a) ==
    /\ pc[s] = "idle"
    /\ IF a \in AudioIds
       THEN /\ rowlock[a] = None
            /\ rowlock' = [rowlock EXCEPT ![a] = s]
            /\ pc' = [pc EXCEPT ![s] = "release_locked"]
       ELSE /\ pc' = [pc EXCEPT ![s] = "release_missing"]
            /\ UNCHANGED rowlock
    /\ local' = [local EXCEPT ![s] = [op |-> "release", audio_id |-> a]]
    /\ UNCHANGED <<Audio, Transcriptions, tlock, blobs>>

\* updated_row is set: db.commit() and return True.
release_commit(s) ==
    /\ pc[s] = "release_locked"
    /\ LET a == local[s].audio_id IN
       /\ Audio' = [Audio EXCEPT ![a] = release_committed(@, now)]
       /\ rowlock' = [rowlock EXCEPT ![a] = None]
    /\ pc' = [pc EXCEPT ![s] = "idle"]
    /\ local' = [local EXCEPT ![s] = Idle]
    /\ UNCHANGED <<Transcriptions, tlock, blobs>>

\* updated_row is None: db.rollback() and return False.
release_none(s) ==
    /\ pc[s] = "release_missing"
    /\ pc' = [pc EXCEPT ![s] = "idle"]
    /\ local' = [local EXCEPT ![s] = Idle]
    /\ UNCHANGED <<store>>

\* The except branch of the release: the store fails before the commit, the
\* transaction is rolled back and the error is raised.
release_rollback(s) ==
    /\ pc[s] = "release_locked"
    /\ rowlock' = [rowlock EXCEPT ![local[s].audio_id] = None]
    /\ pc' = [pc EXCEPT ![s] = "idle"]
    /\ local' = [local EXCEPT ![s] = Idle]
    /\ UNCHANGED <<Audio, Transcriptions, tlock, blobs>>

\* AudioService.release_audio_lease called by validate_transcription after its
\* commit: UPDATE (waits for the row lock), commit.
validate_release(s) ==
    /\ pc[s] = "validate_committed"
    /\ rowlock[local[s].audio_id] = None
    /\ Audio' = [Audio EXCEPT ![local[s].audio_id] = release_committed(@, now)]
    /\ pc' = [pc EXCEPT ![s] = "idle"]
    /\ local' = [local EXCEPT ![s] = Idle]
    /\ UNCHANGED <<Transcriptions, rowlock, tlock, blobs>>

\* db.refresh(transcription) raises after the commit: validate_transcription's
\* except Exception rolls back, which undoes nothing, and raises on; the lease
\* is not released.
validate_refresh_failed(s) ==
    /\ pc[s] = "validate_committed"
    /\ pc' = [pc EXCEPT ![s] = "idle"]
    /\ local' = [local EXCEPT ![s] = Idle]
    /\ UNCHANGED <<store>>

\* release_audio_lease raises: validate_transcription catches the error to log
\* a warning and go on; the corrections stay committed and the lease is left
\* as it was.
validate_release_failed(s) ==
    /\ pc[s] = "validate_committed"
    /\ pc' = [pc EXCEPT ![s] = "idle"]
    /\ local' = [local EXCEPT ![s] = Idle]
    /\ UNCHANGED <<store>>

\* ----------------------------------------------------------------- history
\* grant[a]: who was last granted a lease on row a (claim or validation), the
\* transaction time of the grant, and whether since then a submission for a was
\* stored and whether a's lease was released.
RecordGrant(a, by, t) ==
    grant' = [grant EXCEPT ![a] =
                 [by |-> by, at |-> t, submitted |-> FALSE, released |-> FALSE]]

RecordSubmit(a) ==
    grant' = [grant EXCEPT ![a].submitted = TRUE]

RecordRelease(a) ==
    grant' = [grant EXCEPT ![a].released = TRUE]

\* ------------------------------------------------------------------- clock
\* A timestamp TickMinutes later, told apart as far back as `floor`.
Aged(x, floor) ==
    IF x = NULL THEN NULL
    ELSE IF x - TickMinutes < floor THEN floor ELSE x - TickMinutes

\* A lease TickMinutes later: once over (< NOW()) it is held as -TickMinutes.
AgedLease(x) ==
    IF x = NULL THEN NULL
    ELSE IF x - TickMinutes < 0 THEN 0 - TickMinutes ELSE x - TickMinutes

\* TickMinutes pass.  A request's statements take far less than that, so the
\* clock advances between requests, with no transaction open.
Tick ==
    /\ \A s \in Sessions : pc[s] = "idle"
    /\ Audio' = [a \in AudioIds |->
          [Audio[a] EXCEPT !.leased_until = AgedLease(@)]]
    /\ Transcriptions' = [i \in TransIds |->
          [Transcriptions[i] EXCEPT !.created_at = Aged(@, 0 - TickMinutes)]]
    /\ grant' = [a \in DOMAIN grant |-> [grant[a] EXCEPT !.at = Aged(@, 0 - Horizon)]]
    /\ UNCHANGED <<rowlock, tlock, blobs, pc, local, returned, eligible>>

\* ----------------------------------------------------------- specification
\* The store after a bulk import of NumAudio clips, every session idle.
Init ==
    /\ Audio = [a \in AllAudioIds |-> NewAudio(a)]
    /\ Transcriptions = <<>>
    /\ rowlock = [a \in AllAudioIds |-> None]
    /\ tlock = [i \in 1..MaxTranscriptions |-> None]
    /\ blobs = {Filename(a) : a \in AllAudioIds}
    /\ pc = [s \in Sessions |-> "idle"]
    /\ local = [s \in Sessions |-> Idle]
    /\ grant = [a \in AllAudioIds |-> NoGrant]
    /\ returned = <<>>
    /\ eligible = AllAudioIds

\* Rows of "Transcriptions" stored or about to be stored number fewer than the
\* model lets exist.
RoomForSubmission ==
    Len(Transcriptions) + Cardinality({x \in Sessions : pc[x] = "submit_unsuitable"})
        < MaxTranscriptions

\* The submissions sent while the service runs.  Those the request model or
\* the API's lookup turns down, and those of the web form, which differ from
\* the API's in the answer only, leave the same stores behind and are left out.
SpecRequests == {q \in Requests : q.entry = "api" /\ q.text = <<"t">>}

\* The validation sent while the service runs: a corrected text with its
\* quality fields, is_audio_suitable at the default of the request model.
\* Bodies the request model turns down leave the store alone and are left out.
SpecPayloads ==
    {body \in Payloads : /\ body.transcription = <<"c">> /\ body.has_noise = "TRUE"
                         /\ body.is_audio_suitable = "TRUE" /\ body.admin = "NULL"}

\* The steps of the transcriber's requests: claim and submit.
Transcribe ==
    \/ \E s \in Sessions : claim_execute(s) /\ UNCHANGED hist
    \/ \E s \in Sessions :
          claim_commit(s) /\ RecordGrant(local[s].audio_id, "claim", now) /\ UNCHANGED run
    \/ \E s \in Sessions : claim_none(s) /\ UNCHANGED hist
    \/ \E s \in Sessions : claim_rollback(s) /\ UNCHANGED hist
    \/ \E s \in Sessions, q \in SpecRequests : submit_not_found(s, q) /\ UNCHANGED hist
    \/ \E s \in Sessions, q \in SpecRequests : submit_suitable(s, q) /\ UNCHANGED hist
    \/ \E s \in Sessions, q \in SpecRequests, outcome \in DeleteOutcomes :
          RoomForSubmission /\ submit_unsuitable(s, q, outcome) /\ UNCHANGED hist
    \/ \E s \in Sessions :
          submit_unsuitable_commit(s) /\ RecordSubmit(local[s].audio_id) /\ UNCHANGED run
    \/ \E s \in Sessions : submit_integrity_error(s) /\ UNCHANGED hist

\* The steps of the reviewer's requests: next for validation and validate.  No
\* row stored here is both suitable and unvalidated, so nv_select finds no
\* candidate; the lease of a candidate's parent (nv_lease_commit) is run in
\* SpecValidation and SpecReview.
Review ==
    \/ \E s \in Sessions : nv_select(s) /\ UNCHANGED hist
    \/ \E s \in Sessions, i \in 1..MaxTranscriptions, body \in SpecPayloads :
          validate_not_found(s, i, body) /\ UNCHANGED hist
    \/ \E s \in Sessions, i \in 1..MaxTranscriptions, body \in SpecPayloads :
          validate_commit(s, i, body) /\ UNCHANGED hist
    \/ \E s \in Sessions :
          validate_release(s) /\ RecordRelease(local[s].audio_id) /\ UNCHANGED run
    \/ \E s \in Sessions : validate_refresh_failed(s) /\ UNCHANGED hist
    \/ \E s \in Sessions : validate_release_failed(s) /\ UNCHANGED hist

\* Transcribers and reviewers at work while time passes.
Next ==
    \/ Transcribe
    \/ Review
    \/ Tick

Spec == Init /\ [][Next]_vars

\* ------------------------------------------------- a run of concurrent claims
\* What a finished claim call handed to its caller.
Item(a) == [kind |-> "item", audio_id |-> a]
Empty == [kind |-> "empty", audio_id |-> NULL]
Raised == [kind |-> "error", audio_id |-> NULL]

\* Any pool the requests above can have left behind, every session idle: at
\* most one item x scrubbed, with k submissions; every other item without any.
\* A lease is absent, over or still running.
InitClaims ==
    /\ \E x \in 0..NumAudio, k \in 1..(MAX_TRANSCRIPTIONS_PER_AUDIO + 1),
          l \in [AllAudioIds -> {NULL, 0 - TickMinutes, LeaseUntil(0 - TickMinutes)}] :
          /\ Audio = [a \in AllAudioIds |->
                 IF a = x
                 THEN [scrub(NewAudio(a)) EXCEPT !.transcription_count = k,
                                                 !.leased_until = l[a]]
                 ELSE [NewAudio(a) EXCEPT !.leased_until = l[a]]]
          /\ Transcriptions = IF x = 0 THEN <<>>
                              ELSE [i \in 1..k |-> UnsuitableTranscription(x, <<"t">>)]
          /\ blobs = {Filename(a) : a \in AllAudioIds \ {x}}
    /\ rowlock = [a \in AllAudioIds |-> None]
    /\ tlock = [i \in 1..Len(Transcriptions) |-> None]
    /\ pc = [s \in Callers |-> "idle"]
    /\ local = [s \in Callers |-> Idle]
    /\ grant = [a \in AllAudioIds |-> NoGrant]
    /\ returned = <<>>
    /\ eligible = {a \in AudioIds : Claimable(Audio[a], now)}

\* Claim calls begun so far.
ClaimCalls ==
    Len(returned) + Cardinality({s \in Callers : pc[s] \in {"claim_empty", "claim_locked"}})

\* Up to MaxClaimCalls claim calls by the callers, overlapping at will; nothing
\* else runs and the clock stands still.
NextClaims ==
    \/ \E s \in Callers :
          /\ ClaimCalls < MaxClaimCalls
          /\ claim_execute(s) /\ UNCHANGED hist
    \/ \E s \in Callers :
          /\ claim_commit(s) /\ RecordGrant(local[s].audio_id, "claim", now)
          /\ returned' = Append(returned, Item(local[s].audio_id))
          /\ UNCHANGED eligible
    \/ \E s \in Callers :
          claim_none(s) /\ returned' = Append(returned, Empty) /\ UNCHANGED <<grant, eligible>>
    \/ \E s \in Callers :
          claim_rollback(s) /\ returned' = Append(returned, Raised)
                            /\ UNCHANGED <<grant, eligible>>

SpecClaims == InitClaims /\ [][NextClaims]_vars

\* ------------------------------------------- a run of releases and claims
\* What a finished release call handed to its caller: True or False.
Released(a) == [kind |-> "released", audio_id |-> a]
NotReleased(a) == [kind |-> "not_released", audio_id |-> a]

\* Calls begun so far.
Calls == Len(returned) + Cardinality({s \in Callers : pc[s] # "idle"})

\* Up to MaxCalls calls of release_audio_lease and of the claim by the
\* callers, overlapping at will, on any pool the requests can have left
\* behind; the clock stands still.
NextRelease ==
    \/ \E s \in Callers, a \in RequestIds :
          Calls < MaxCalls /\ release_execute(s, a) /\ UNCHANGED hist
    \/ \E s \in Callers :
          /\ release_commit(s) /\ RecordRelease(local[s].audio_id)
          /\ returned' = Append(returned, Released(local[s].audio_id))
          /\ UNCHANGED eligible
    \/ \E s \in Callers :
          /\ release_none(s)
          /\ returned' = Append(returned, NotReleased(local[s].audio_id))
          /\ UNCHANGED <<grant, eligible>>
    \/ \E s \in Callers :
          release_rollback(s) /\ returned' = Append(returned, Raised)
                              /\ UNCHANGED <<grant, eligible>>
    \/ \E s \in Callers :
          Calls < MaxCalls /\ claim_execute(s) /\ UNCHANGED hist
    \/ \E s \in Callers :
          /\ claim_commit(s) /\ RecordGrant(local[s].audio_id, "claim", now)
          /\ returned' = Append(returned, Item(local[s].audio_id))
          /\ UNCHANGED eligible
    \/ \E s \in Callers :
          claim_none(s) /\ returned' = Append(returned, Empty) /\ UNCHANGED <<grant, eligible>>
    \/ \E s \in Callers :
          claim_rollback(s) /\ returned' = Append(returned, Raised)
                            /\ UNCHANGED <<grant, eligible>>

SpecRelease == InitClaims /\ [][NextRelease]_vars

\* ------------------------------------- a run of next-for-validation calls
\* A row of "Transcriptions" for suitable audio, as the validation queue reads it.
SuitableTranscription(a, validated, created) ==
    [audio_id |-> a, transcription |-> <<"t">>, speaker_gender |-> "male",
     has_noise |-> "FALSE", is_code_mixed |-> "FALSE",
     is_speaker_overlappings_exist |-> "FALSE", is_audio_suitable |-> "TRUE",
     admin |-> "NULL", validated_at |-> validated, created_at |-> created]

\* What a finished next-for-validation call handed to its caller.
Pair(i, a) == [kind |-> "pair", trans_id |-> i, audio_id |-> a]

\* A store that holds NumPending submissions for suitable audio, as the
\* validation queue may find it (create_transcription as it stands stores
\* none, see above): each on any item, the first validated or not, all
\* created at once or one after the other; on each item no lease or a running
\* one.
InitValidation ==
    /\ \E parent \in [1..NumPending -> AllAudioIds], first \in {NULL, 0 - TickMinutes},
          tied \in BOOLEAN :
          Transcriptions = [i \in 1..NumPending |->
              SuitableTranscription(parent[i], IF i = 1 THEN first ELSE NULL,
                                    IF tied THEN 0 - NumPending ELSE i - NumPending - 1)]
    /\ \E l \in [AllAudioIds -> {NULL, LeaseUntil(0 - TickMinutes)}] :
          Audio = [a \in AllAudioIds |->
                     [NewAudio(a) EXCEPT
                         !.leased_until = l[a],
                         !.transcription_count =
                             Cardinality({i \in 1..NumPending :
                                             Transcriptions[i].audio_id = a})]]
    /\ rowlock = [a \in AllAudioIds |-> None]
    /\ tlock = [i \in 1..NumPending |-> None]
    /\ blobs = {Filename(a) : a \in AllAudioIds}
    /\ pc = [s \in Sessions |-> "idle"]
    /\ local = [s \in Sessions |-> Idle]
    /\ grant = [a \in AllAudioIds |-> NoGrant]
    /\ returned = <<>>
    /\ eligible = {}

\* Next-for-validation calls begun so far.
NvCalls == Len(returned) + Cardinality({s \in Sessions : pc[s] = "nv_selected"})

\* Up to MaxNvCalls calls of get_next_unvalidated_transcription by the
\* sessions, overlapping at will; nothing else runs and the clock stands still.
NextValidation ==
    \/ /\ NvCalls < MaxNvCalls
       /\ \E s \in Sessions :
          nv_select(s) /\ pc'[s] = "nv_selected" /\ UNCHANGED hist
    \/ /\ NvCalls < MaxNvCalls
       /\ \E s \in Sessions :
          /\ nv_select(s) /\ pc'[s] = "idle"
          /\ returned' = Append(returned, Empty) /\ UNCHANGED <<grant, eligible>>
    \/ \E s \in Sessions :
          /\ nv_lease_commit(s) /\ RecordGrant(local[s].audio_id, "validation", now)
          /\ returned' = Append(returned, Pair(local[s].trans_id, local[s].audio_id))
          /\ UNCHANGED eligible

SpecValidation == InitValidation /\ [][NextValidation]_vars

\* ------------------------------- next-for-validation calls on a wider pool
\* A store of NumContended items and one submission more than that, each on any
\* item, none validated, created one after the other; on each item no lease or
\* a running one.
InitContention ==
    /\ \E parent \in [1..(NumContended + 1) -> 1..NumContended] :
          Transcriptions = [i \in 1..(NumContended + 1) |->
              SuitableTranscription(parent[i], NULL, i - NumContended - 2)]
    /\ \E l \in [1..NumContended -> {NULL, LeaseUntil(0 - TickMinutes)}] :
          Audio = [a \in 1..NumContended |->
                     [NewAudio(a) EXCEPT
                         !.leased_until = l[a],
                         !.transcription_count =
                             Cardinality({i \in 1..(NumContended + 1) :
                                             Transcriptions[i].audio_id = a})]]
    /\ rowlock = [a \in 1..NumContended |-> None]
    /\ tlock = [i \in 1..(NumContended + 1) |-> None]
    /\ blobs = {Filename(a) : a \in 1..NumContended}
    /\ pc = [s \in Sessions |-> "idle"]
    /\ local = [s \in Sessions |-> Idle]
    /\ grant = [a \in 1..NumContended |-> NoGrant]
    /\ returned = <<>>
    /\ eligible = {}

\* Up to MaxNvCalls calls of get_next_unvalidated_transcription on that store,
\* overlapping at will.
SpecContention == InitContention /\ [][NextValidation]_vars

\* ------------------------------------------ imports and unsuitable audio
\* An empty store and a bucket that holds the clips.
InitImport ==
    /\ Audio = [a \in {} |-> NewAudio(a)]
    /\ Transcriptions = <<>>
    /\ rowlock = [a \in AllAudioIds |-> None]
    /\ tlock = [i \in 1..MaxTranscriptions |-> None]
    /\ blobs = {Filename(a) : a \in AllAudioIds}
    /\ pc = [s \in Sessions |-> "idle"]
    /\ local = [s \in Sessions |-> Idle]
    /\ grant = [a \in AllAudioIds |-> NoGrant]
    /\ returned = <<>>
    /\ eligible = {}

\* The rows the store has room for are enough for the file.
RoomForImport(csv) == Len(csv) <= Cardinality(AllAudioIds \ AudioIds)

\* Bulk imports and submissions for unsuitable audio, overlapping at will.
NextImport ==
    \/ \E s \in Sessions, csv \in CsvFiles :
          RoomForImport(csv) /\ import_read(s, csv) /\ UNCHANGED hist
    \/ \E s \in Sessions : import_commit(s) /\ UNCHANGED hist
    \/ \E s \in Sessions : import_integrity_error(s) /\ UNCHANGED hist
    \/ /\ RoomForSubmission
       /\ \E s \in Sessions, q \in SpecRequests, outcome \in DeleteOutcomes :
          submit_unsuitable(s, q, outcome) /\ UNCHANGED hist
    \/ \E s \in Sessions :
          submit_unsuitable_commit(s) /\ RecordSubmit(local[s].audio_id) /\ UNCHANGED run
    \/ \E s \in Sessions : submit_integrity_error(s) /\ UNCHANGED hist

SpecImport == InitImport /\ [][NextImport]_vars

\* ------------------------------------------------------ a run of submissions
\* How a finished submission was answered: "validation_error" (422, or 400 by
\* the web form handler), "not_found" (404), "error" (500) or "ok".
SubmitResult(kind, q) ==
    [op |-> "submit", kind |-> kind, audio_id |-> q.audio_id, entry |-> q.entry,
     text |-> q.text, suitable |-> q.suitable]

\* The answer once create_transcription has committed the row: the session
\* (AsyncSessionLocal, expire_on_commit left at its default) expires the row at
\* the commit, the log line that follows reads new_transcription.trans_id, the
\* reload that read needs cannot run outside the session's greenlet and raises,
\* and both handlers answer 500 (the API handler could not build its
\* TranscriptionResponse either: it passes no is_validated).
StoredResult(q) == SubmitResult("error", q)

\* Up to MaxSubmitCalls submissions by the callers, overlapping at will, on any
\* pool the requests can have left behind; the clock stands still.
NextSubmit ==
    \/ /\ Calls < MaxSubmitCalls
       /\ \E s \in Callers, q \in Requests :
          /\ submit_rejected(s, q)
          /\ returned' = Append(returned, SubmitResult("validation_error", q))
          /\ UNCHANGED <<grant, eligible>>
    \/ /\ Calls < MaxSubmitCalls
       /\ \E s \in Callers, q \in Requests :
          /\ submit_not_found(s, q)
          /\ returned' = Append(returned, SubmitResult("not_found", q))
          /\ UNCHANGED <<grant, eligible>>
    \/ /\ Calls < MaxSubmitCalls
       /\ \E s \in Callers, q \in Requests :
          /\ submit_suitable(s, q)
          /\ returned' = Append(returned, SubmitResult("error", q))
          /\ UNCHANGED <<grant, eligible>>
    \/ /\ Calls < MaxSubmitCalls
       /\ \E s \in Callers, q \in Requests, outcome \in DeleteOutcomes :
          submit_unsuitable(s, q, outcome) /\ UNCHANGED hist
    \/ \E s \in Callers :
          /\ submit_unsuitable_commit(s) /\ RecordSubmit(local[s].audio_id)
          /\ returned' = Append(returned, StoredResult(local[s].request))
          /\ UNCHANGED eligible
    \/ \E s \in Callers :
          /\ submit_integrity_error(s)
          /\ returned' = Append(returned, SubmitResult("error", local[s].request))
          /\ UNCHANGED <<grant, eligible>>

\* The pools of a run of submissions: no lease or a running one on each item,
\* and at most one item scrubbed, by one submission.
InitSubmit ==
    /\ InitClaims
    /\ \A a \in AudioIds :
          /\ Audio[a].leased_until \in {NULL, LeaseUntil(0 - TickMinutes)}
          /\ Audio[a].transcription_count <= 1

SpecSubmit == InitSubmit /\ [][NextSubmit]_vars

\* ----------------------------------------------------- a run of reviews
\* How a finished validation was answered: "validation_error" (422),
\* "not_found" (404), "error" (500) or "ok".
ValidateResult(kind, i) == [kind |-> kind, trans_id |-> i, audio_id |-> NULL]

\* The answer once validate_transcription has committed the corrections and
\* called release_audio_lease: the commit or the rollback of the release
\* expires the row (the session's expire_on_commit is left at its default), the
\* warning and the log line that follow read transcription.audio_id and
\* transcription.trans_id, the reload cannot run outside the session's greenlet
\* and raises, validate_transcription's except Exception rolls back and raises
\* on, and the handler answers 500.
ValidatedResult(i) == ValidateResult("error", i)

\* Fault: the handler has no except ValueError, and the missing row ends in
\* its except Exception.
MissingResult_as_error(i) == ValidateResult("error", i)

\* The answer to the ValueError validate_transcription raises for a trans_id
\* no row carries: the handler's except ValueError answers 404.
MissingResult(i) == ValidateResult("not_found", i)

\* The bodies sent in a run of reviews: two corrected texts, each with its
\* quality fields, and two blank ones.
ReviewPayloads ==
    {body \in Payloads : (body.has_noise = "TRUE") <=> (body.transcription = <<"c">>)}

\* A store that holds NumReview submissions for suitable audio (drawn, as
\* above): each on any item, the first validated or not, created one after the
\* other; on each item no lease or a running one.
InitReview ==
    /\ \E parent \in [1..NumReview -> AllAudioIds], first \in {NULL, 0 - TickMinutes} :
          Transcriptions = [i \in 1..NumReview |->
              SuitableTranscription(parent[i], IF i = 1 THEN first ELSE NULL,
                                    i - NumReview - 1)]
    /\ \E l \in [AllAudioIds -> {NULL, LeaseUntil(0 - TickMinutes)}] :
          Audio = [a \in AllAudioIds |->
                     [NewAudio(a) EXCEPT
                         !.leased_until = l[a],
                         !.transcription_count =
                             Cardinality({i \in 1..NumReview :
                                             Transcriptions[i].audio_id = a})]]
    /\ rowlock = [a \in AllAudioIds |-> None]
    /\ tlock = [i \in 1..(NumReview + 3) |-> None]
    /\ blobs = {Filename(a) : a \in AllAudioIds}
    /\ pc = [s \in Sessions |-> "idle"]
    /\ local = [s \in Sessions |-> Idle]
    /\ grant = [a \in AllAudioIds |-> NoGrant]
    /\ returned = <<>>
    /\ eligible = {}

\* Calls begun so far in a run of reviews.
ReviewCalls == Len(returned) + Cardinality({s \in Sessions : pc[s] # "idle"})

\* The unsuitable submission sent in a run of reviews.
ReviewRequests ==
    {q \in Requests : q.entry = "api" /\ q.text = <<"t">> /\ q.suitable = "FALSE"
                      /\ q.audio_id \in AllAudioIds}

\* Up to MaxReviewCalls calls by the sessions, overlapping at will: next for
\* validation, validate (with the release it ends in), claim and unsuitable
\* submission, while time passes.
NextReview ==
    \/ /\ ReviewCalls < MaxReviewCalls
       /\ \E s \in Sessions :
          nv_select(s) /\ pc'[s] = "nv_selected" /\ UNCHANGED hist
    \/ /\ ReviewCalls < MaxReviewCalls
       /\ \E s \in Sessions :
          /\ nv_select(s) /\ pc'[s] = "idle"
          /\ returned' = Append(returned, Empty) /\ UNCHANGED <<grant, eligible>>
    \/ \E s \in Sessions :
          /\ nv_lease_commit(s) /\ RecordGrant(local[s].audio_id, "validation", now)
          /\ returned' = Append(returned, Pair(local[s].trans_id, local[s].audio_id))
          /\ UNCHANGED eligible
    \/ /\ ReviewCalls < MaxReviewCalls
       /\ \E s \in Sessions, i \in 1..(NumReview + 3), body \in ReviewPayloads :
          /\ validate_rejected(s, body)
          /\ returned' = Append(returned, ValidateResult("validation_error", i))
          /\ UNCHANGED <<grant, eligible>>
    \/ /\ ReviewCalls < MaxReviewCalls
       /\ \E s \in Sessions, i \in 1..(NumReview + 3), body \in ReviewPayloads :
          /\ validate_not_found(s, i, body)
          /\ returned' = Append(returned, MissingResult(i))
          /\ UNCHANGED <<grant, eligible>>
    \/ /\ ReviewCalls < MaxReviewCalls
       /\ \E s \in Sessions, i \in 1..(NumReview + 3), body \in ReviewPayloads :
          validate_commit(s, i, body) /\ UNCHANGED hist
    \/ \E s \in Sessions :
          /\ validate_release(s) /\ RecordRelease(local[s].audio_id)
          /\ returned' = Append(returned, ValidatedResult(local[s].trans_id))
          /\ UNCHANGED eligible
    \/ \E s \in Sessions :
          /\ validate_refresh_failed(s)
          /\ returned' = Append(returned, ValidateResult("error", local[s].trans_id))
          /\ UNCHANGED <<grant, eligible>>
    \/ \E s \in Sessions :
          /\ validate_release_failed(s)
          /\ returned' = Append(returned, ValidatedResult(local[s].trans_id))
          /\ UNCHANGED <<grant, eligible>>
    \/ /\ ReviewCalls < MaxReviewCalls
       /\ \E s \in Sessions : claim_execute(s) /\ UNCHANGED hist
    \/ \E s \in Sessions :
          /\ claim_commit(s) /\ RecordGrant(local[s].audio_id, "claim", now)
          /\ returned' = Append(returned, Item(local[s].audio_id))
          /\ UNCHANGED eligible
    \/ \E s \in Sessions :
          claim_none(s) /\ returned' = Append(returned, Empty) /\ UNCHANGED <<grant, eligible>>
    \/ \E s \in Sessions :
          claim_rollback(s) /\ returned' = Append(returned, Raised)
                            /\ UNCHANGED <<grant, eligible>>
    \/ /\ ReviewCalls < MaxReviewCalls
       /\ Len(Transcriptions) + Cardinality({x \in Sessions : pc[x] = "submit_unsuitable"})
             < NumReview + 2
       /\ \E s \in Sessions, q \in ReviewRequests, outcome \in DeleteOutcomes :
          submit_unsuitable(s, q, outcome) /\ UNCHANGED hist
    \/ \E s \in Sessions :
          /\ submit_unsuitable_commit(s) /\ RecordSubmit(local[s].audio_id)
          /\ returned' = Append(returned, StoredResult(local[s].request))
          /\ UNCHANGED eligible
    \/ \E s \in Sessions :
          /\ submit_integrity_error(s)
          /\ returned' = Append(returned, SubmitResult("error", local[s].request))
          /\ UNCHANGED <<grant, eligible>>
    \/ Tick

SpecReview == InitReview /\ [][NextReview]_vars

\* ------------------------------------------- reviewers who keep reviewing
\* The pairs handed to reviewers and not validated yet are held in `returned`.
\* A reviewer asks for the next pair when fewer than MaxInbox pairs are held.
RoomInInbox ==
    Len(returned) + Cardinality({s \in Sessions : pc[s] = "nv_selected"}) < MaxInbox

\* The sequence without its k-th element.
Without(seq, k) == SubSeq(seq, 1, k - 1) \o SubSeq(seq, k + 1, Len(seq))

\* A next-for-validation call that finds a candidate: the SELECT.
fair_select(s) == RoomInInbox /\ nv_select(s) /\ pc'[s] = "nv_selected" /\ UNCHANGED hist

\* The call's lease and return: the pair is with a reviewer from here on.
fair_lease(s) ==
    /\ nv_lease_commit(s)
    /\ returned' = Append(returned, Pair(local[s].trans_id, local[s].audio_id))
    /\ UNCHANGED <<grant, eligible>>

\* The reviewer who holds the k-th pair validates its submission.
fair_validate(s, k) ==
    /\ k \in DOMAIN returned
    /\ \E body \in SpecPayloads : validate_commit(s, returned[k].trans_id, body)
    /\ returned' = Without(returned, k)
    /\ UNCHANGED <<grant, eligible>>

\* The release that ends a validation, done or failed.
fair_release(s) ==
    /\ validate_release(s) \/ validate_refresh_failed(s) \/ validate_release_failed(s)
    /\ UNCHANGED hist

\* The end of a claim: commit, nothing to claim, or rollback.
fair_claimed(s) ==
    /\ claim_commit(s) \/ claim_none(s) \/ claim_rollback(s)
    /\ UNCHANGED hist

\* Reviewers who ask for the next pair and validate what they are handed, and
\* transcribers who claim, without end, while time passes; no submission is
\* stored.
NextFair ==
    \/ \E s \in Sessions : fair_select(s)
    \/ \E s \in Sessions : nv_select(s) /\ pc'[s] = "idle" /\ UNCHANGED hist
    \/ \E s \in Sessions : fair_lease(s)
    \/ \E s \in Sessions, k \in 1..MaxInbox : fair_validate(s, k)
    \/ \E s \in Sessions : fair_release(s)
    \/ \E s \in Sessions : claim_execute(s) /\ UNCHANGED hist
    \/ \E s \in Sessions : fair_claimed(s)
    \/ Tick

\* Every timestamp is as far back as the model tells: the clock's advance
\* changes nothing.
Settled ==
    /\ \A a \in AudioIds : AgedLease(Audio[a].leased_until) = Audio[a].leased_until
    /\ \A i \in TransIds :
          Aged(Transcriptions[i].created_at, 0 - TickMinutes) = Transcriptions[i].created_at
    /\ \A a \in DOMAIN grant : Aged(grant[a].at, 0 - Horizon) = grant[a].at

\* Every request that has begun runs to its end; reviewers keep asking for the
\* next pair and validate the pairs they hold; the clock advances again and
\* again, whatever requests are made.
Fairness ==
    /\ \A s \in Sessions : WF_vars(fair_lease(s))
    /\ \A s \in Sessions : WF_vars(fair_release(s))
    /\ \A s \in Sessions : WF_vars(fair_claimed(s))
    /\ SF_vars(\E s \in Sessions : fair_select(s))
    /\ SF_vars(\E s \in Sessions, k \in 1..MaxInbox : fair_validate(s, k))
    /\ []<>Settled \/ []<><<Tick>>_vars

\* A store that holds NumFair submissions for suitable audio (drawn, as above),
\* none validated: each on any item, created one after the other; on each item
\* no lease or a running one.
InitFair ==
    /\ \E parent \in [1..NumFair -> AllAudioIds] :
          Transcriptions = [i \in 1..NumFair |->
              SuitableTranscription(parent[i], NULL, i - NumFair - 1)]
    /\ \E l \in [AllAudioIds -> {NULL, LeaseUntil(0 - TickMinutes)}] :
          Audio = [a \in AllAudioIds |->
                     [NewAudio(a) EXCEPT
                         !.leased_until = l[a],
                         !.transcription_count =
                             Cardinality({i \in 1..NumFair :
                                             Transcriptions[i].audio_id = a})]]
    /\ rowlock = [a \in AllAudioIds |-> None]
    /\ tlock = [i \in 1..NumFair |-> None]
    /\ blobs = {Filename(a) : a \in AllAudioIds}
    /\ pc = [s \in Sessions |-> "idle"]
    /\ local = [s \in Sessions |-> Idle]
    /\ grant = [a \in AllAudioIds |-> NoGrant]
    /\ returned = <<>>
    /\ eligible = {}

SpecFair == InitFair /\ [][NextFair]_vars /\ Fairness

\* ------------------------------------------------------- progress counts
\* Fault: the second query counts every row without a validated_at.
pending_count_all(T) ==
    Cardinality({i \in DOMAIN T : T[i].validated_at = NULL})

\* select count() where is_audio_suitable is True
total_count(T) ==
    Cardinality({i \in DOMAIN T : T[i].is_audio_suitable = "TRUE"})

\* select count() where validated_at is None and is_audio_suitable is True
pending_count(T) ==
    Cardinality({i \in DOMAIN T :
                    T[i].validated_at = NULL /\ T[i].is_audio_suitable = "TRUE"})

\* max(total - pending, 0)
completed_count(total, pending) ==
    IF total - pending > 0 THEN total - pending ELSE 0

\* What get_validation_progress_counts hands to its caller.
Counts(total, pending) ==
    [kind |-> "counts", total |-> total, pending |-> pending,
     completed |-> completed_count(total, pending)]

\* get_validation_progress_counts, the first query: the rows it read are kept
\* with the call, to tell whether the table changed before the second query.
counts_total(s) ==
    /\ pc[s] = "idle"
    /\ pc' = [pc EXCEPT ![s] = "counts_total"]
    /\ local' = [local EXCEPT ![s] =
           [op |-> "progress_counts", total |-> total_count(Transcriptions),
            rows |-> Transcriptions]]
    /\ UNCHANGED <<store>>

\* The second query, and the dictionary returned.
counts_pending(s) ==
    /\ pc[s] = "counts_total"
    /\ returned' = Append(returned,
                          Counts(local[s].total, pending_count(Transcriptions)))
    /\ pc' = [pc EXCEPT ![s] = "idle"]
    /\ local' = [local EXCEPT ![s] = Idle]
    /\ UNCHANGED <<store>>

\* A store of NumPending submissions, each one pending (suitable, not
\* validated), validated, or stored for unsuitable audio; no item leased.
InitProgress ==
    /\ \E kind \in [1..NumPending -> {"pending", "validated", "unsuitable"}] :
          Transcriptions = [i \in 1..NumPending |->
              IF kind[i] = "unsuitable"
              THEN UnsuitableTranscription(((i - 1) % NumAudio) + 1, <<"t">>)
              ELSE SuitableTranscription(((i - 1) % NumAudio) + 1,
                       IF kind[i] = "validated" THEN 0 - TickMinutes ELSE NULL,
                       0 - TickMinutes)]
    /\ Audio = [a \in AllAudioIds |->
                  [NewAudio(a) EXCEPT !.transcription_count =
                       Cardinality({i \in 1..NumPending :
                                       Transcriptions[i].audio_id = a})]]
    /\ rowlock = [a \in AllAudioIds |-> None]
    /\ tlock = [i \in 1..NumPending |-> None]
    /\ blobs = {Filename(a) : a \in AllAudioIds}
    /\ pc = [s \in Sessions |-> "idle"]
    /\ local = [s \in Sessions |-> Idle]
    /\ grant = [a \in AllAudioIds |-> NoGrant]
    /\ returned = <<>>
    /\ eligible = {}

\* The validations sent in a run of progress counts.
ProgressPayloads ==
    {body \in Payloads : /\ body.transcription = <<"c">> /\ body.has_noise = "TRUE"
                         /\ body.is_audio_suitable # "NULL" /\ body.admin = "NULL"}

\* Up to MaxProgressCalls calls of get_validation_progress_counts and of
\* validate_transcription by the sessions, overlapping at will.
NextProgress ==
    \/ /\ ReviewCalls < MaxProgressCalls
       /\ \E s \in Sessions : counts_total(s) /\ UNCHANGED hist
    \/ \E s \in Sessions : counts_pending(s) /\ UNCHANGED <<grant, eligible>>
    \/ /\ ReviewCalls < MaxProgressCalls
       /\ \E s \in Sessions, i \in 1..NumPending, body \in ProgressPayloads :
          validate_commit(s, i, body) /\ UNCHANGED hist
    \/ \E s \in Sessions :
          /\ validate_release(s) /\ RecordRelease(local[s].audio_id)
          /\ returned' = Append(returned, ValidatedResult(local[s].trans_id))
          /\ UNCHANGED eligible
    \/ \E s \in Sessions :
          /\ validate_refresh_failed(s)
          /\ returned' = Append(returned, ValidateResult("error", local[s].trans_id))
          /\ UNCHANGED <<grant, eligible>>
    \/ \E s \in Sessions :
          /\ validate_release_failed(s)
          /\ returned' = Append(returned, ValidatedResult(local[s].trans_id))
          /\ UNCHANGED <<grant, eligible>>

SpecProgress == InitProgress /\ [][NextProgress]_vars

\* The submissions sent in a run of progress counts: for suitable audio and
\* for unsuitable audio.
CountsRequests ==
    {q \in Requests : /\ q.entry = "api" /\ q.text = <<"t">>
                      /\ q.suitable \in {"TRUE", "FALSE"} /\ q.audio_id \in AllAudioIds}

\* The calls of a run of progress counts, and submissions as well: any of them
\* may commit between the two queries of get_validation_progress_counts.
NextCounts ==
    \/ NextProgress
    \/ /\ ReviewCalls < MaxProgressCalls
       /\ \E s \in Sessions, q \in CountsRequests :
          /\ submit_suitable(s, q)
          /\ returned' = Append(returned, SubmitResult("error", q))
          /\ UNCHANGED <<grant, eligible>>
    \/ /\ ReviewCalls < MaxProgressCalls
       /\ Len(Transcriptions) + Cardinality({x \in Sessions : pc[x] = "submit_unsuitable"})
             < NumCounted + 2
       /\ \E s \in Sessions, q \in CountsRequests, outcome \in DeleteOutcomes :
          submit_unsuitable(s, q, outcome) /\ UNCHANGED hist
    \/ \E s \in Sessions :
          /\ submit_unsuitable_commit(s) /\ RecordSubmit(local[s].audio_id)
          /\ returned' = Append(returned, StoredResult(local[s].request))
          /\ UNCHANGED eligible
    \/ \E s \in Sessions :
          /\ submit_integrity_error(s)
          /\ returned' = Append(returned, SubmitResult("error", local[s].request))
          /\ UNCHANGED <<grant, eligible>>

\* A store of NumCounted submissions, each one pending, validated, or stored
\* for unsuitable audio; no item leased.
InitCounts ==
    /\ \E kind \in [1..NumCounted -> {"pending", "validated", "unsuitable"}] :
          Transcriptions = [i \in 1..NumCounted |->
              IF kind[i] = "unsuitable"
              THEN UnsuitableTranscription(((i - 1) % NumAudio) + 1, <<"t">>)
              ELSE SuitableTranscription(((i - 1) % NumAudio) + 1,
                       IF kind[i] = "validated" THEN 0 - TickMinutes ELSE NULL,
                       0 - TickMinutes)]
    /\ Audio = [a \in AllAudioIds |->
                  [NewAudio(a) EXCEPT !.transcription_count =
                       Cardinality({i \in 1..NumCounted :
                                       Transcriptions[i].audio_id = a})]]
    /\ rowlock = [a \in AllAudioIds |-> None]
    /\ tlock = [i \in 1..(NumCounted + 2) |-> None]
    /\ blobs = {Filename(a) : a \in AllAudioIds}
    /\ pc = [s \in Sessions |-> "idle"]
    /\ local = [s \in Sessions |-> Idle]
    /\ grant = [a \in AllAudioIds |-> NoGrant]
    /\ returned = <<>>
    /\ eligible = {}

SpecCounts == InitCounts /\ [][NextCounts]_vars

\* ------------------------------------------------------------------ claims
\* The eligibility rule as the specification words it: the count is below the
\* ceiling and the lease is absent or lies before the present.
Eligible(a) ==
    /\ Audio[a].transcription_count < MAX_TRANSCRIPTIONS_PER_AUDIO
    /\ Audio[a].leased_until = NULL \/ Audio[a].leased_until < now

\* A lease on a is running.
Held(a) == Audio[a].leased_until # NULL /\ Audio[a].leased_until > now

Min(x, y) == IF x <= y THEN x ELSE y

Succeeded == {i \in DOMAIN returned : returned[i].kind = "item"}

RowsOf(T, a) == {i \in 1..Len(T) : T[i].audio_id = a}

\* C1: in a run of concurrent claim calls against one pool, with no lease
\* expiring and no release during the run, no two calls return the same item.
C1_NoTwoCallsReturnTheSameItem ==
    \A i, j \in Succeeded : i # j => returned[i].audio_id # returned[j].audio_id

\* Three claim calls are in flight at once: two hold the rows they selected,
\* different ones, and the third found nothing left.
C1_Witness ==
    /\ \A s \in Callers : pc[s] \in {"claim_locked", "claim_empty"}
    /\ \E s, x \in Callers :
          /\ pc[s] = "claim_locked" /\ pc[x] = "claim_locked"
          /\ local[s].audio_id # local[x].audio_id

\* C7: once N claim calls against a pool of M eligible items have all returned,
\* none of them failed by a store error, exactly min(N, M) returned an item and
\* the others returned empty.
C7_ExactlyMinSucceed ==
    (/\ \A s \in Callers : pc[s] = "idle"
     /\ \A i \in DOMAIN returned : returned[i].kind # "error")
    => Cardinality(Succeeded) = Min(Len(returned), Cardinality(eligible))

\* More calls than eligible items have all returned: some with an item, the
\* rest empty.
C7_Witness ==
    /\ \A s \in Callers : pc[s] = "idle"
    /\ Len(returned) = MaxClaimCalls
    /\ \A i \in DOMAIN returned : returned[i].kind # "error"
    /\ eligible # {}
    /\ Cardinality(eligible) < Len(returned)
    /\ Cardinality(Succeeded) = Cardinality(eligible)

\* C5: an item whose count has reached or passed the ceiling is never selected
\* or returned by a claim, whatever its lease.
C5_CeilingNeverClaimed ==
    /\ \A s \in Callers : pc[s] = "claim_locked" =>
           Audio[local[s].audio_id].transcription_count < MAX_TRANSCRIPTIONS_PER_AUDIO
    /\ \A i \in Succeeded :
           Audio[returned[i].audio_id].transcription_count < MAX_TRANSCRIPTIONS_PER_AUDIO

\* A claim came back empty although an item has no lease or a lease that is
\* over: that item is at the ceiling.
C5_Witness ==
    /\ \E i \in DOMAIN returned : returned[i].kind = "empty"
    /\ \E a \in AudioIds :
          /\ Audio[a].transcription_count >= MAX_TRANSCRIPTIONS_PER_AUDIO
          /\ Audio[a].leased_until = NULL \/ Audio[a].leased_until < now

\* C8: a claim selects an item only if the item is eligible when the call is
\* made; made with no other transaction in flight it comes back empty exactly
\* when no item is eligible; and an empty result is an ordinary return that
\* leaves every row of "Audio" as it was.
C8_ClaimFollowsEligibility ==
    [][\A s \in Callers :
        /\ (pc[s] = "idle" /\ pc'[s] = "claim_locked") => Eligible(local'[s].audio_id)
        /\ (/\ pc[s] = "idle" /\ pc'[s] \in {"claim_empty", "claim_locked"}
            /\ \A x \in Callers \ {s} : pc[x] = "idle")
           => (pc'[s] = "claim_empty" <=> ~ \E a \in AudioIds : Eligible(a))
        /\ (pc[s] = "idle" /\ pc'[s] = "claim_empty") => Audio' = Audio
        /\ (pc[s] = "claim_empty" /\ pc'[s] = "idle")
           => (Audio' = Audio /\ returned' = Append(returned, Empty))
      ]_vars

\* The first call of a run, made alone, came back empty although an item is
\* below the ceiling: its lease is still running.
C8_Witness ==
    /\ returned = <<>>
    /\ \E s \in Callers :
          /\ pc[s] = "claim_empty"
          /\ \A x \in Callers \ {s} : pc[x] = "idle"
    /\ \E a \in AudioIds :
          Audio[a].transcription_count < MAX_TRANSCRIPTIONS_PER_AUDIO /\ Held(a)

\* A lease on a is granted in this step.
NewGrant(a) ==
    /\ grant'[a] # grant[a]
    /\ grant'[a].by # "none" /\ grant'[a].at = now
    /\ ~grant'[a].submitted /\ ~grant'[a].released

\* A submission for a is stored in this step.
Submitted(a) ==
    /\ Len(Transcriptions') = Len(Transcriptions) + 1
    /\ Transcriptions'[Len(Transcriptions')].audio_id = a

\* C2: once a claim has granted item a at time t, no claim and no
\* next-for-validation is granted a before t + AUDIO_LEASE_TIMEOUT_MINUTES,
\* unless a submission for a was stored in between.
C2_OneGrantPerLeaseWindow ==
    [][\A a \in AudioIds :
        NewGrant(a) => ~ (/\ grant[a].by = "claim"
                          /\ ~grant[a].submitted
                          /\ now < grant[a].at + AUDIO_LEASE_TIMEOUT_MINUTES)
      ]_vars

\* C3: a submission stored for an item whose lease is running ends that lease
\* in the same step, so that the item, its count still below the ceiling, is
\* not kept from the next claim by the lease.
C3_SubmitReleasesLease ==
    [][\A a \in AudioIds :
        (/\ Submitted(a) /\ Held(a)
         /\ Audio'[a].transcription_count < MAX_TRANSCRIPTIONS_PER_AUDIO)
        => (Audio'[a].leased_until = NULL \/ Audio'[a].leased_until <= now)
      ]_vars

\* C4: no item ever has more than MAX_TRANSCRIPTIONS_PER_AUDIO submissions, nor
\* a count above it.
C4_AtMostMaxSubmissions ==
    \A a \in AudioIds :
        /\ Cardinality(TranscriptionsOf(a)) <= MAX_TRANSCRIPTIONS_PER_AUDIO
        /\ Audio[a].transcription_count <= MAX_TRANSCRIPTIONS_PER_AUDIO

\* C6: an item claimed at time t whose lease was not released since, and on
\* which no newer lease was granted, is eligible for a claim at every time after
\* t + AUDIO_LEASE_TIMEOUT_MINUTES while its count is below the ceiling.
C6_ExpiredLeaseIsClaimable ==
    \A a \in AudioIds :
        (/\ grant[a].by = "claim" /\ ~grant[a].released
         /\ grant[a].at + AUDIO_LEASE_TIMEOUT_MINUTES < now
         /\ Audio[a].transcription_count < MAX_TRANSCRIPTIONS_PER_AUDIO)
        => Eligible(a)

\* An item claimed more than the lease time ago, and abandoned, is selected by
\* a new claim.
C6_Witness ==
    \E a \in AudioIds, s \in Sessions :
        /\ grant[a].by = "claim" /\ ~grant[a].submitted /\ ~grant[a].released
        /\ grant[a].at + AUDIO_LEASE_TIMEOUT_MINUTES < now
        /\ Audio[a].leased_until # NULL
        /\ pc[s] = "claim_locked" /\ local[s].audio_id = a

\* C9: an item's count always equals the number of its submissions; a step
\* that stores a submission for it raises the count by exactly one, and no other
\* step (claim, validate, lease release, next for validation, the clock)
\* changes the count.
C9_CountIsNumberOfSubmissions ==
    /\ [](\A a \in AudioIds :
            Audio[a].transcription_count = Cardinality(TranscriptionsOf(a)))
    /\ [][\A a \in AudioIds :
            /\ Submitted(a) =>
                   Audio'[a].transcription_count = Audio[a].transcription_count + 1
            /\ ~Submitted(a) =>
                   /\ Audio'[a].transcription_count = Audio[a].transcription_count
                   /\ RowsOf(Transcriptions', a) = RowsOf(Transcriptions, a)
         ]_vars

\* An item that was claimed has two submissions, one of them validated, and a
\* count of two.
C9_Witness ==
    \E a \in AudioIds :
        /\ Cardinality(TranscriptionsOf(a)) = MAX_TRANSCRIPTIONS_PER_AUDIO
        /\ Audio[a].transcription_count = MAX_TRANSCRIPTIONS_PER_AUDIO
        /\ \E i \in TranscriptionsOf(a) : Transcriptions[i].validated_at # NULL
        /\ grant[a].by = "claim"

\* C10: no state shows a submission stored for an item since its claim while
\* the lease of that claim is still running.
C10_NoSubmissionUnderHeldLease ==
    \A a \in AudioIds :
        ~ (grant[a].by = "claim" /\ grant[a].submitted /\ Held(a))

\* C11: a claim made while no other claim is in flight selects, among the
\* eligible items, the one with the smallest count, the smallest id among
\* those of equal count, and that item is what the call returns.
C11_LeastCountThenLeastId ==
    [][\A s \in Callers :
        /\ (/\ pc[s] = "idle" /\ pc'[s] = "claim_locked"
            /\ \A x \in Callers \ {s} : pc[x] = "idle")
           => LET a == local'[s].audio_id IN
              /\ Eligible(a)
              /\ \A b \in AudioIds : Eligible(b) =>
                    \/ Audio[a].transcription_count < Audio[b].transcription_count
                    \/ /\ Audio[a].transcription_count = Audio[b].transcription_count
                       /\ a <= b
        /\ (/\ pc[s] = "claim_locked" /\ pc'[s] = "idle"
            /\ returned' # Append(returned, Raised))
           => returned' = Append(returned, Item(local[s].audio_id))
      ]_vars

\* A claim made alone returned the item of the larger id: the other eligible
\* item has the larger count.
C11_Witness ==
    /\ Len(returned) = 1 /\ returned[1].kind = "item"
    /\ \A s \in Callers : pc[s] = "idle"
    /\ \E b \in eligible :
          /\ b < returned[1].audio_id
          /\ Audio[b].transcription_count > Audio[returned[1].audio_id].transcription_count

\* C12: a claim that fails after it selected an item and before its commit
\* leaves every row of "Audio" as it was and grants no lease; the item it had
\* selected is unlocked and as eligible as before, open to the other callers.
C12_AbortedClaimHoldsNoLease ==
    [][\A s \in Callers :
        (/\ pc[s] = "claim_locked" /\ pc'[s] = "idle"
         /\ returned' = Append(returned, Raised))
        => LET a == local[s].audio_id IN
           /\ Audio' = Audio
           /\ grant' = grant
           /\ rowlock'[a] = None
           /\ Audio'[a].transcription_count < MAX_TRANSCRIPTIONS_PER_AUDIO
           /\ Audio'[a].leased_until = NULL \/ Audio'[a].leased_until < now
      ]_vars

\* The only eligible item of the pool was selected by a claim that failed, and
\* the next call was granted it.
C12_Witness ==
    /\ Cardinality(eligible) = 1
    /\ Len(returned) = 2
    /\ returned[1] = Raised
    /\ returned[2].kind = "item" /\ returned[2].audio_id \in eligible
    /\ grant[returned[2].audio_id].by = "claim"

\* C13: a release of an existing item returns True and leaves the item with a
\* lease that is set and not after the present, so that the lease is over for
\* the next claim, whatever the lease was before; no other field of the row,
\* no other row and no submission changes.  A release of an id that no item
\* carries returns False, raises nothing and changes nothing.
C13_ReleaseExpiresLease ==
    [][\A s \in Callers :
        /\ (/\ pc[s] = "release_locked" /\ pc'[s] = "idle"
            /\ returned' # Append(returned, Raised))
           => LET a == local[s].audio_id IN
              /\ returned' = Append(returned, Released(a))
              /\ Audio'[a].leased_until # NULL /\ Audio'[a].leased_until <= now
              /\ Audio'[a].leased_until = NULL \/ Audio'[a].leased_until < now
              /\ Audio' = [Audio EXCEPT ![a].leased_until = Audio'[a].leased_until]
              /\ Transcriptions' = Transcriptions /\ blobs' = blobs
        /\ (pc[s] = "idle" /\ pc'[s] \in {"release_locked", "release_missing"})
           => /\ pc'[s] = "release_missing" <=> local'[s].audio_id \notin AudioIds
              /\ Audio' = Audio /\ Transcriptions' = Transcriptions /\ blobs' = blobs
        /\ (pc[s] = "release_missing" /\ pc'[s] = "idle")
           => /\ returned' = Append(returned, NotReleased(local[s].audio_id))
              /\ Audio' = Audio /\ Transcriptions' = Transcriptions /\ blobs' = blobs
              /\ rowlock' = rowlock
      ]_vars

\* An item below the ceiling whose lease was running was released, and the
\* next call, a claim, returned it; a release of an unknown id returned False.
C13_Witness ==
    /\ Len(returned) = 3
    /\ returned[1].kind = "not_released"
    /\ returned[2].kind = "released" /\ returned[2].audio_id \notin eligible
    /\ returned[3] = Item(returned[2].audio_id)

\* C14: a release of an item that comes straight after a release of the same
\* item returns True as the first did and leaves the row as the first left it:
\* the lease over, the count what it was.
C14_ReleaseIsIdempotent ==
    [][\A s \in Callers :
        (/\ pc[s] = "release_locked" /\ pc'[s] = "idle"
         /\ returned' # Append(returned, Raised)
         /\ returned # <<>>
         /\ returned[Len(returned)] = Released(local[s].audio_id))
        => LET a == local[s].audio_id IN
           /\ returned' = Append(returned, Released(a))
           /\ Audio' = Audio
           /\ Audio'[a].leased_until # NULL /\ Audio'[a].leased_until < now
      ]_vars

\* An item whose lease was running was released twice in succession.
C14_Witness ==
    /\ Len(returned) = 2
    /\ returned[1].kind = "released" /\ returned[2] = returned[1]
    /\ returned[1].audio_id \in AudioIds \ eligible
    /\ Audio[returned[1].audio_id].transcription_count < MAX_TRANSCRIPTIONS_PER_AUDIO
    /\ \A s \in Callers : pc[s] = "idle"

\* The call that finished in this step appended r to what the calls returned.
Finished(r) == returned' = Append(returned, r)

\* The store: both tables and the bucket.
StoreUnchanged == Audio' = Audio /\ Transcriptions' = Transcriptions /\ blobs' = blobs

\* C15: a submission that names no item, and is otherwise well-formed, is
\* answered not-found through the API and through the web form, and no step of
\* it adds a submission, changes an item or deletes a blob.
C15_UnknownItemIsNotFound ==
    [][/\ \A q \in Requests, k \in {"not_found", "error", "ok"} :
            (Finished(SubmitResult(k, q)) /\ q.audio_id \notin AudioIds)
            => (k = "not_found" /\ StoreUnchanged)
       /\ \A s \in Callers :
            (pc[s] = "idle" /\ pc'[s] = "submit_unsuitable" /\ ~local'[s].found)
            => StoreUnchanged
      ]_vars

\* C16: a submission for audio flagged suitable (or not flagged) whose text is
\* empty or whitespace is answered with a validation error in one step that
\* leaves the store, leases and counts included, as it was.
C16_BlankSuitableIsRejected ==
    [][\A q \in Requests, k \in {"validation_error", "not_found", "error", "ok"} :
        (Finished(SubmitResult(k, q)) /\ q.suitable # "FALSE" /\ strip(q.text) = <<>>)
        => /\ k = "validation_error"
           /\ StoreUnchanged /\ rowlock' = rowlock
           /\ \A s \in Callers : pc[s] = "submit_unsuitable" => pc'[s] = pc[s]
      ]_vars

\* A whitespace text was turned down through the API and through the web form
\* while an item was leased.
C16_Witness ==
    /\ Len(returned) = 2
    /\ \A i \in 1..2 :
          /\ returned[i].kind = "validation_error"
          /\ returned[i].suitable = "TRUE" /\ returned[i].text = <<" ">>
          /\ returned[i].audio_id \in AudioIds /\ Held(returned[i].audio_id)
    /\ returned[1].entry = "api" /\ returned[2].entry = "web"

\* C17: an unsuitable submission on an existing item ends with one new
\* submission for it whose text is the placeholder and whose quality fields are
\* null, and with the item's filename replaced by the sentinel, its reference
\* transcription replaced and its timing fields null.
C17_UnsuitableStoresPlaceholder ==
    [][\A s \in Callers :
        (pc[s] = "submit_unsuitable" /\ pc'[s] = "idle" /\ local[s].found)
        => LET a == local[s].audio_id IN
           /\ Transcriptions' =
                  Append(Transcriptions, UnsuitableTranscription(a, PLACEHOLDER))
           /\ Audio'[a].audio_filename = NOT_SUITABLE
           /\ Audio'[a].google_transcription # "reference"
           /\ Audio'[a].start_time = NULL /\ Audio'[a].end_time = NULL
           /\ Audio'[a].padded_duration = NULL /\ Audio'[a].created_at = NULL
      ]_vars

\* C18: an unsuitable submission on an existing item whose payload the bucket
\* did not delete (no such blob, or the delete raised) goes on to store the
\* submission and the scrubbed item, and create_transcription returns the row.
C18_DeleteFailureDoesNotAbort ==
    [][\A s \in Callers :
        (/\ pc[s] = "submit_unsuitable" /\ pc'[s] = "idle"
         /\ local[s].found /\ local[s].delete \in {"not_found", "raised"})
        => LET a == local[s].audio_id IN
           /\ Len(Transcriptions') = Len(Transcriptions) + 1
           /\ Transcriptions'[Len(Transcriptions')].audio_id = a
           /\ Audio'[a].audio_filename = NOT_SUITABLE
           /\ Finished(SubmitResult("ok", local[s].request))
      ]_vars

\* C19: no two rows of "Audio" carry the same audio_filename, whatever bulk
\* imports and unsuitable submissions have run.
C19_FilenamesAreUnique ==
    \A a, b \in AudioIds : a # b => Audio[a].audio_filename # Audio[b].audio_filename

\* Two imported items, one scrubbed by an unsuitable submission, and an
\* unsuitable submission for the other at its commit.
C19_Witness ==
    /\ Cardinality(AudioIds) = 2
    /\ \E a \in AudioIds :
          Audio[a].audio_filename = NOT_SUITABLE /\ TranscriptionsOf(a) # {}
    /\ \E s \in Sessions :
          /\ pc[s] = "submit_unsuitable"
          /\ local[s].found /\ local[s].original_filename # NOT_SUITABLE

\* C20: next-for-validation calls that run at the same time never hold or
\* return the same submission, nor submissions of one item; and while the lease
\* a call took on the parent is running, no call returns a submission of that
\* parent.
C20_NoTwoReviewersOnOneItem ==
    /\ \A s, x \in Sessions :
          (s # x /\ pc[s] = "nv_selected" /\ pc[x] = "nv_selected")
          => /\ local[s].trans_id # local[x].trans_id
             /\ local[s].audio_id # local[x].audio_id
    /\ \A i, j \in DOMAIN returned :
          (i < j /\ returned[i].kind = "pair" /\ returned[j].kind = "pair")
          => /\ returned[i].trans_id # returned[j].trans_id
             /\ Held(returned[i].audio_id)
                   => returned[i].audio_id # returned[j].audio_id

\* Two calls hold the submissions they selected at the same time: those of
\* one item are locked by the first call, the second holds another item's.
C20_Witness ==
    /\ \A s \in Sessions : pc[s] = "nv_selected"
    /\ \E s, x \in Sessions : local[s].audio_id # local[x].audio_id

\* Submission i is suitable, not validated, and its parent's lease is over.
Pending(i) ==
    /\ Transcriptions[i].is_audio_suitable = "TRUE"
    /\ Transcriptions[i].validated_at = NULL
    /\ LET l == Audio[Transcriptions[i].audio_id].leased_until IN l = NULL \/ l < now

\* C21: the submission a next-for-validation call picks is pending, and no
\* pending submission that is free of other calls' locks was created before it;
\* a call that runs alone picks the earliest pending submission there is.
C21_EarliestPendingFirst ==
    [][\A s \in Sessions :
          (pc[s] = "idle" /\ pc'[s] = "nv_selected")
          => LET i == local'[s].trans_id IN
             /\ Pending(i)
             /\ local'[s].audio_id = Transcriptions[i].audio_id
             /\ \A j \in TransIds :
                   (/\ Pending(j)
                    /\ tlock[j] = None
                    /\ rowlock[Transcriptions[j].audio_id] = None)
                   => Transcriptions[i].created_at <= Transcriptions[j].created_at]_vars

\* Two calls, one after the other, of submissions created one after the other:
\* the first returned A, the earliest of all; the second, made while the lease
\* on A's parent runs, passed over a later submission of that parent and
\* returned B, of another parent.
C21_Witness ==
    /\ Len(returned) = 2
    /\ returned[1].kind = "pair" /\ returned[2].kind = "pair"
    /\ LET A == returned[1].trans_id
           B == returned[2].trans_id IN
       /\ \A j \in TransIds \ {A} :
             Transcriptions[A].created_at < Transcriptions[j].created_at
       /\ returned[1].audio_id # returned[2].audio_id
       /\ Held(returned[1].audio_id)
       /\ \E j \in TransIds \ {A} :
             /\ Transcriptions[j].audio_id = returned[1].audio_id
             /\ Transcriptions[j].validated_at = NULL
             /\ Transcriptions[j].created_at < Transcriptions[B].created_at

\* C22: a submission that carries a validated_at is not picked by a
\* next-for-validation call, and none is validated between the moment a call
\* picked it and the moment the call returns it, whatever claims, submissions,
\* validations, releases and clock ticks run in between.
C22_ValidatedIsNeverServed ==
    [][\A s \in Sessions :
          /\ (pc[s] = "idle" /\ pc'[s] = "nv_selected")
             => Transcriptions[local'[s].trans_id].validated_at = NULL
          /\ (pc[s] = "nv_selected" /\ pc'[s] = "idle")
             => /\ Finished(Pair(local[s].trans_id, local[s].audio_id))
                /\ Transcriptions[local[s].trans_id].validated_at = NULL]_vars

\* A validation stamped submission i and released its parent; the call that
\* came next passed i over and returned a submission created after it.
C22_Witness ==
    /\ Len(returned) = 2
    /\ \E i, j \in TransIds :
          /\ i < j
          /\ returned[1] = ValidatedResult(i)
          /\ returned[2] = Pair(j, Transcriptions[j].audio_id)
          /\ Transcriptions[i].validated_at = now
          /\ Transcriptions[i].is_audio_suitable = "TRUE"
          /\ Transcriptions[i].audio_id # Transcriptions[j].audio_id
          /\ ~Held(Transcriptions[i].audio_id)

\* C23: a validated_at that is set stays set in every step; and a validation
\* of a submission, one that carries a validated_at included, goes through and
\* leaves the submission with the text, the quality fields and the suitability
\* of its payload and with the time of this validation.
C23_ValidatedAtIsOneWay ==
    [][/\ \A i \in TransIds :
            Transcriptions[i].validated_at # NULL
            => (i \in DOMAIN Transcriptions' /\ Transcriptions'[i].validated_at # NULL)
       /\ \A s \in Sessions :
            (pc[s] = "idle" /\ pc'[s] = "validate_committed")
            => LET u == local'[s].update_data
                   before == Transcriptions[local'[s].trans_id]
                   after == Transcriptions'[local'[s].trans_id] IN
               /\ after.transcription = u.transcription
               /\ after.speaker_gender = u.speaker_gender
               /\ after.has_noise = u.has_noise
               /\ after.is_code_mixed = u.is_code_mixed
               /\ after.is_speaker_overlappings_exist = u.is_speaker_overlappings_exist
               /\ after.is_audio_suitable =
                      (IF u.is_audio_suitable = "NULL" THEN before.is_audio_suitable
                       ELSE u.is_audio_suitable)
               /\ after.validated_at = now
      ]_vars

\* Two validations of one submission have committed, the first with the text
\* "c" and noise, the second with the text "d" and no noise and with the audio
\* flagged unsuitable: the row carries what the second supplied.
C23_Witness ==
    \E s, x \in Sessions :
       /\ pc[s] = "validate_committed" /\ pc[x] = "validate_committed"
       /\ local[s].trans_id = local[x].trans_id
       /\ local[s].update_data.transcription = <<"c">>
       /\ local[x].update_data.transcription = <<"d">>
       /\ local[x].update_data.is_audio_suitable = "FALSE"
       /\ LET row == Transcriptions[local[s].trans_id] IN
          /\ row.transcription = <<"d">> /\ row.has_noise = "FALSE"
          /\ row.is_audio_suitable = "FALSE" /\ row.validated_at # NULL

\* C24: the commit of a validation leaves the submission's place in the table
\* (its id), its audio_id, admin and created_at as they were, whatever admin
\* the payload names, and leaves every other submission, every item and the
\* bucket untouched; the release that ends the validation changes nothing but
\* the leased_until of the submission's parent.
C24_ValidateFrame ==
    [][\A s \in Sessions :
          /\ (pc[s] = "idle" /\ pc'[s] = "validate_committed")
             => LET i == local'[s].trans_id IN
                /\ DOMAIN Transcriptions' = DOMAIN Transcriptions
                /\ \A j \in TransIds \ {i} : Transcriptions'[j] = Transcriptions[j]
                /\ Transcriptions'[i].admin = Transcriptions[i].admin
                /\ Transcriptions'[i].audio_id = Transcriptions[i].audio_id
                /\ Transcriptions'[i].created_at = Transcriptions[i].created_at
                /\ local'[s].audio_id = Transcriptions[i].audio_id
                /\ Audio' = Audio /\ blobs' = blobs
          /\ (pc[s] = "validate_committed" /\ pc'[s] = "idle")
             => LET a == local[s].audio_id IN
                /\ Transcriptions' = Transcriptions /\ blobs' = blobs
                /\ \A b \in AudioIds \ {a} : Audio'[b] = Audio[b]
                /\ Audio'[a] = [Audio[a] EXCEPT !.leased_until = Audio'[a].leased_until]
      ]_vars

\* A validation whose payload names the admin "chirath" has committed on a
\* submission that carries no admin: the row is stamped and carries none.
C24_Witness ==
    \E s \in Sessions :
       /\ pc[s] = "validate_committed"
       /\ local[s].update_data.admin = "chirath"
       /\ Transcriptions[local[s].trans_id].admin = "NULL"
       /\ Transcriptions[local[s].trans_id].validated_at = now
       /\ Transcriptions[local[s].trans_id].transcription = local[s].update_data.transcription

\* C25: a validation that has committed its corrections ends by handing the
\* row to its caller, with the row still stamped and the corrections in place,
\* and with the parent's lease either ended by the release or, when the release
\* failed, left as it was.
C25_ValidateSurvivesFailedRelease ==
    [][\A s \in Sessions :
          (pc[s] = "validate_committed" /\ pc'[s] = "idle")
          => LET i == local[s].trans_id
                 a == local[s].audio_id IN
             /\ Finished(ValidateResult("ok", i))
             /\ Transcriptions' = Transcriptions
             /\ Transcriptions[i].validated_at # NULL
             /\ \/ Audio' = Audio
                \/ Audio'[a].leased_until < now
      ]_vars

\* C26: a validation is answered not-found exactly when its trans_id is that
\* of no submission (the payload being well-formed), and such a validation
\* changes no submission, no item, no lease and no lock.
C26_UnknownSubmissionIsNotFound ==
    [][\A i \in 1..(NumReview + 3), k \in {"not_found", "error", "ok"} :
          Finished(ValidateResult(k, i))
          => /\ (i \notin TransIds) <=> (k = "not_found")
             /\ (k = "not_found")
                => (StoreUnchanged /\ rowlock' = rowlock /\ tlock' = tlock)
      ]_vars

\* A validation of a submission and one of a trans_id that no submission
\* carries have both been answered, the second not-found, while an item is
\* under a lease.
C26_Witness ==
    /\ Len(returned) = 2
    /\ \E i \in TransIds : returned[1] = ValidatedResult(i)
    /\ \E i \in 1..(NumReview + 3) \ TransIds : returned[2] = ValidateResult("not_found", i)
    /\ \E a \in AudioIds : Held(a)

\* C27: neither query of the progress counts changes the store or takes a lock;
\* the dictionary returned has completed = max(total - pending, 0); and when
\* the table did not change while the call ran, total is the number of
\* submissions flagged suitable, pending the number of those without a
\* validated_at, and completed the number of those with one.
C27_ProgressCounts ==
    [][\A s \in Sessions :
          /\ (pc[s] = "idle" /\ pc'[s] = "counts_total")
             => (StoreUnchanged /\ rowlock' = rowlock /\ tlock' = tlock)
          /\ (pc[s] = "counts_total" /\ pc'[s] = "idle")
             => LET r == returned'[Len(returned')]
                    suitable == {i \in TransIds : Transcriptions[i].is_audio_suitable = "TRUE"}
                    open == {i \in suitable : Transcriptions[i].validated_at = NULL} IN
                /\ StoreUnchanged /\ rowlock' = rowlock /\ tlock' = tlock
                /\ Len(returned') = Len(returned) + 1
                /\ r.kind = "counts"
                /\ r.completed = (IF r.total - r.pending > 0 THEN r.total - r.pending ELSE 0)
                /\ local[s].rows = Transcriptions
                   => /\ r.total = Cardinality(suitable)
                      /\ r.pending = Cardinality(open)
                      /\ r.completed = Cardinality(suitable \ open)
      ]_vars

\* The counts of a store that holds five submissions flagged suitable, two of
\* them validated, and one stored for unsuitable audio: 5, 3 and 2.
C27_Witness ==
    /\ returned = <<[kind |-> "counts", total |-> 5, pending |-> 3, completed |-> 2]>>
    /\ Cardinality({i \in TransIds : Transcriptions[i].is_audio_suitable = "TRUE"}) = 5
    /\ Cardinality({i \in TransIds : Transcriptions[i].is_audio_suitable = "TRUE"
                                     /\ Transcriptions[i].validated_at # NULL}) = 2
    /\ \E i \in TransIds : /\ Transcriptions[i].is_audio_suitable = "FALSE"
                           /\ Transcriptions[i].validated_at = NULL

\* C28: a caller with no call under way can always run the claim's statement,
\* whatever rows other transactions have locked, and a claim under way can
\* always finish, whether the other transactions commit or not; the statement
\* reserves a row no transaction has locked, the first in claim order of the
\* eligible rows that are free, and comes back empty only when no eligible row
\* is free.
C28_ClaimNeverWaits ==
    /\ [](\A s \in Callers :
             /\ (pc[s] = "idle" /\ ClaimCalls < MaxClaimCalls)
                => ENABLED (claim_execute(s) /\ UNCHANGED hist)
             /\ pc[s] = "claim_locked" => ENABLED claim_commit(s)
             /\ pc[s] = "claim_empty" => ENABLED claim_none(s))
    /\ [][\A s \in Callers :
             LET free == {a \in AudioIds : Eligible(a) /\ rowlock[a] = None} IN
             /\ (pc[s] = "idle" /\ pc'[s] = "claim_locked")
                => /\ local'[s].audio_id \in free
                   /\ \A b \in free \ {local'[s].audio_id} :
                         ClaimBefore(local'[s].audio_id, b)
                   /\ \A x \in Callers \ {s} : pc'[x] = pc[x]
             /\ (pc[s] = "idle" /\ pc'[s] = "claim_empty") => free = {}
      ]_vars

\* Three claims under way at once: the first holds the lock on the best row,
\* the second passed that row over and holds the next, and the third, with
\* both eligible rows locked, came back empty; none has committed.
C28_Witness ==
    \E s, x, y \in Callers :
       /\ pc[s] = "claim_locked" /\ pc[x] = "claim_locked" /\ pc[y] = "claim_empty"
       /\ local[s].audio_id # local[x].audio_id
       /\ ClaimBefore(local[s].audio_id, local[x].audio_id)
       /\ \A a \in AudioIds : Eligible(a) /\ rowlock[a] # None

\* The items of which session s holds a locked row, the item's own or one of
\* its submissions.
LockedItems(s) ==
    {a \in AudioIds : rowlock[a] = s}
        \cup {Transcriptions[i].audio_id : i \in {j \in TransIds : tlock[j] = s}}

\* The items of which this step changed a row.
WrittenItems ==
    {a \in AudioIds :
        \/ Audio'[a] # Audio[a]
        \/ \E i \in DOMAIN Transcriptions' :
              /\ Transcriptions'[i].audio_id = a
              /\ (i \in TransIds => Transcriptions'[i] # Transcriptions[i])}

\* The step that lets session s, with a call under way, go on without a
\* failure of the store.
Proceeds(s) ==
    \/ claim_commit(s) \/ claim_none(s) \/ nv_lease_commit(s)
    \/ validate_release(s) \/ submit_unsuitable_commit(s) \/ submit_integrity_error(s)

\* No session waits for the other in a circle: when calls are under way, one
\* of them can go on.
NoDeadlock ==
    (\E s \in Sessions : pc[s] # "idle")
    => \E s \in Sessions : pc[s] # "idle" /\ ENABLED Proceeds(s)

C30_FailedCallLeavesNoTrace ==
    [][\A s \in Sessions :
          (\/ pc'[s] # "idle" /\ pc'[s] # pc[s]
           \/ /\ pc[s] # "idle" /\ pc'[s] = "idle"
              /\ Len(returned') = Len(returned) + 1
              /\ returned'[Len(returned')].kind = "error")
          => (Audio' = Audio /\ Transcriptions' = Transcriptions)
      ]_vars

\* C31: the pair a next-for-validation call returns is a submission that is
\* suitable and not validated, with the item it belongs to; the item's lease
\* was absent or over when the call selected it and until the call leased it;
\* and the call leaves every running lease as it is.
C31_ServedPairWasFree ==
    [][\A s \in Sessions :
          /\ (pc[s] = "idle" /\ pc'[s] = "nv_selected")
             => ~Held(local'[s].audio_id)
          /\ (pc[s] = "nv_selected" /\ pc'[s] = "idle")
             => LET i == local[s].trans_id
                    a == local[s].audio_id IN
                /\ Finished(Pair(i, a))
                /\ Transcriptions[i].is_audio_suitable = "TRUE"
                /\ Transcriptions[i].validated_at = NULL
                /\ Transcriptions[i].audio_id = a
                /\ ~Held(a)
                /\ Audio'[a].leased_until = now + AUDIO_LEASE_TIMEOUT_MINUTES
                /\ \A b \in AudioIds : Held(b) => Audio'[b] = Audio[b]]_vars

\* A claim leased an item and its lease ran out unused; a next-for-validation
\* call then returned a submission of that item and leased it anew.
C31_Witness ==
    /\ Len(returned) = 2
    /\ returned[1].kind = "item" /\ returned[2].kind = "pair"
    /\ returned[1].audio_id = returned[2].audio_id
    /\ grant[returned[2].audio_id].by = "validation"
    /\ ~grant[returned[2].audio_id].submitted
    /\ Held(returned[2].audio_id)

\* The items that have a pending submission.
PendingParents == {Transcriptions[i].audio_id : i \in {j \in TransIds : Pending(j)}}

\* Next-for-validation calls under way.
NvInFlight == {s \in Sessions : pc[s] = "nv_selected"}

\* C32: a next-for-validation call that runs while others are under way does
\* not come back empty when the items that have a pending submission outnumber
\* the calls under way, this one counted.
C32_FallsBackPastTakenCandidates ==
    [][\A s \in Sessions :
          (/\ pc[s] = "idle" /\ pc'[s] = "idle"
           /\ NvInFlight # {}
           /\ returned' = Append(returned, Empty))
          => Cardinality(PendingParents) <= Cardinality(NvInFlight) + 1]_vars

\* C33: a claim that returns an item changes one thing in the store, that
\* item's leased_until, which becomes NOW() plus the lease time; its count, every
\* other item, every submission and the bucket stay as they were.  A
\* next-for-validation call that returns a pair does the same to the pair's item.
C33_GrantWritesTheLeaseOnly ==
    [][\A s \in Sessions :
          /\ (pc[s] = "claim_locked" /\ Finished(Item(local[s].audio_id)))
             => /\ Audio' = [Audio EXCEPT ![local[s].audio_id].leased_until =
                                now + AUDIO_LEASE_TIMEOUT_MINUTES]
                /\ Transcriptions' = Transcriptions /\ blobs' = blobs
          /\ (pc[s] = "nv_selected" /\ pc'[s] = "idle")
             => /\ Finished(Pair(local[s].trans_id, local[s].audio_id))
                /\ Audio' = [Audio EXCEPT ![local[s].audio_id].leased_until =
                                now + AUDIO_LEASE_TIMEOUT_MINUTES]
                /\ Transcriptions' = Transcriptions /\ blobs' = blobs]_vars

\* A claim returned an item that has a submission, and a next-for-validation
\* call returned a submission of the other item: both leases run for the full
\* lease time and the counts are those of the submissions.
C33_Witness ==
    /\ Len(returned) = 2
    /\ \E m, n \in 1..2 :
          /\ returned[m].kind = "item" /\ returned[n].kind = "pair"
          /\ returned[m].audio_id # returned[n].audio_id
          /\ \A a \in {returned[m].audio_id, returned[n].audio_id} :
                /\ Audio[a].leased_until = now + AUDIO_LEASE_TIMEOUT_MINUTES
                /\ Audio[a].transcription_count = Cardinality(TranscriptionsOf(a))
          /\ Audio[returned[m].audio_id].transcription_count = 1

\* The filenames stored in "Audio".
StoredFilenames == {Audio[a].audio_filename : a \in AudioIds}

\* The lines of a file that are not blank, not stored, and not a repetition of
\* an earlier line of the file.
Remaining(csv) ==
    {i \in DOMAIN csv :
        /\ csv[i] # "" /\ csv[i] \notin StoredFilenames
        /\ \A j \in 1..(i - 1) : csv[j] # csv[i]}

\* C34: a bulk import whose file met, when it was read, the filenames that are
\* stored when it ends, stores one new row for each line that is not blank, not
\* stored and not a repetition of an earlier line, with count 0 and no lease,
\* and changes no other row.
C34_ImportSkipsBlanksAndDuplicates ==
    [][\A s \in Sessions :
          (/\ pc[s] = "import_read" /\ pc'[s] = "idle"
           /\ local[s].kept = {i \in DOMAIN local[s].csv :
                                  /\ local[s].csv[i] # ""
                                  /\ local[s].csv[i] \notin StoredFilenames})
          => LET csv == local[s].csv
                 new == DOMAIN Audio' \ AudioIds IN
             /\ \A a \in AudioIds : Audio'[a] = Audio[a]
             /\ Cardinality(new) = Cardinality(Remaining(csv))
             /\ \A i \in Remaining(csv) :
                   \E a \in new : Audio'[a] = ImportedAudio(csv[i])]_vars

\* Submission i is with a reviewer: a next-for-validation call returned it.
Served(i) == \E k \in DOMAIN returned : returned[k].trans_id = i

C36_DeletedPayloadMeansScrubbed ==
    \A a \in AudioIds :
        (Audio[a].audio_filename # NOT_SUITABLE /\ Audio[a].audio_filename \notin blobs)
        => \E s \in Sessions :
              /\ pc[s] = "submit_unsuitable"
              /\ local[s].audio_id = a /\ local[s].delete = "deleted"

\* C37: an unsuitable submission on an existing item, made while another item
\* carries the sentinel filename, ends with a new submission stored for the
\* item and the item's count raised by one.
C37_UnsuitableSucceedsBesideScrubbed ==
    [][\A s \in Callers :
        (/\ pc[s] = "submit_unsuitable" /\ pc'[s] = "idle" /\ local[s].found
         /\ \E b \in AudioIds \ {local[s].audio_id} :
               Audio[b].audio_filename = NOT_SUITABLE)
        => LET a == local[s].audio_id IN
           /\ Submitted(a)
           /\ Audio'[a].transcription_count = Audio[a].transcription_count + 1
      ]_vars

\* C38: no claim selects or returns an item that carries the sentinel filename.
C38_ScrubbedIsNeverClaimed ==
    /\ \A s \in Callers :
          pc[s] = "claim_locked" => Audio[local[s].audio_id].audio_filename # NOT_SUITABLE
    /\ \A i \in Succeeded : Audio[returned[i].audio_id].audio_filename # NOT_SUITABLE

====
